---- MODULE Spec2Model ----
(***************************************************************************)
(* Model of koto's GitHub attention aggregation (src/repo/github).         *)
(*                                                                         *)
(* Conventions.  An Option<T> value is a sequence of length at most one:   *)
(* None is <<>> and Some(v) is <<v>>.  Text that the code only compares or *)
(* copies (logins, titles, cursors) is a TLA+ string.  Text that the code  *)
(* parses (GitHub DateTime values) is handed to the parser as a sequence   *)
(* of one-character strings, so that the parser works on it character by   *)
(* character.                                                              *)
(***************************************************************************)
EXTENDS Integers, Sequences, FiniteSets, TLC

None == <<>>
Some(v) == <<v>>
Unwrap(o) == o[1]

Range(s) == {s[i] : i \in 1..Len(s)}

(* Rust integer division truncates toward zero; \div floors. *)
TruncDiv(a, b) == IF a >= 0 THEN a \div b ELSE -((-a) \div b)

----------------------------------------------------------------------------
(* src/repo/github/timeutil.rs *)

DigitChars == {"0", "1", "2", "3", "4", "5", "6", "7", "8", "9"}

RECURSIVE DigitsValue(_)
DigitsValue(cs) ==
    LET
        DigitVal(c) ==
            CASE c = "0" -> 0 [] c = "1" -> 1 [] c = "2" -> 2 [] c = "3" -> 3
              [] c = "4" -> 4 [] c = "5" -> 5 [] c = "6" -> 6 [] c = "7" -> 7
              [] c = "8" -> 8 [] c = "9" -> 9
    IN
        IF cs = <<>> THEN 0
        ELSE 10 * DigitsValue(SubSeq(cs, 1, Len(cs) - 1)) + DigitVal(cs[Len(cs)])

(* str::parse::<i32>() (signed = TRUE) and str::parse::<u32>() (signed =   *)
(* FALSE): an optional sign ("+" always, "-" only for the signed type)     *)
(* followed by at least one decimal digit.                                 *)
ParseInt(cs, signed) ==
    IF cs = <<>> THEN None
    ELSE LET hasSign == cs[1] = "+" \/ (signed /\ cs[1] = "-")
             digits  == IF hasSign THEN Tail(cs) ELSE cs
         IN  IF digits = <<>> \/ \E i \in 1..Len(digits) : digits[i] \notin DigitChars
             THEN None
             ELSE Some(IF cs[1] = "-" THEN -DigitsValue(digits) ELSE DigitsValue(digits))

IsSpace(c) == c \in {" ", "\t", "\n", "\r"}

RECURSIVE TrimStart(_)
TrimStart(cs) ==
    IF cs # <<>> /\ IsSpace(cs[1]) THEN TrimStart(Tail(cs)) ELSE cs

RECURSIVE TrimEnd(_)
TrimEnd(cs) ==
    IF cs # <<>> /\ IsSpace(cs[Len(cs)])
    THEN TrimEnd(SubSeq(cs, 1, Len(cs) - 1)) ELSE cs

Trim(cs) == TrimEnd(TrimStart(cs))

(* str::rsplit_once(c): the parts before and after the last c. *)
RSplitOnce(cs, c) ==
    LET idx == {i \in 1..Len(cs) : cs[i] = c}
    IN  IF idx = {} THEN None
        ELSE LET k == CHOOSE i \in idx : \A j \in idx : j <= i
             IN  Some(<<SubSeq(cs, 1, k - 1), SubSeq(cs, k + 1, Len(cs))>>)

(* str::split_once(c) splitting at the last c. *)
SplitOnce_last(cs, c) == RSplitOnce(cs, c)

(* str::split_once(c): the parts before and after the first c. *)
SplitOnce(cs, c) ==
    LET idx == {i \in 1..Len(cs) : cs[i] = c}
    IN  IF idx = {} THEN None
        ELSE LET k == CHOOSE i \in idx : \A j \in idx : i <= j
             IN  Some(<<SubSeq(cs, 1, k - 1), SubSeq(cs, k + 1, Len(cs))>>)

(* days_from_civil refusing a day beyond the length of the month. *)
days_from_civil_month_length(year, month, day) ==
    IF month \notin 1..12 THEN None
    ELSE IF day \notin 1..31 THEN None
    ELSE IF day > (IF month = 2 THEN 29 ELSE IF month \in {4, 6, 9, 11} THEN 30 ELSE 31)
         THEN None
    ELSE LET y   == year - (IF month <= 2 THEN 1 ELSE 0)
             era == TruncDiv(IF y >= 0 THEN y ELSE y - 399, 400)
             yoe == y - era * 400
             doy == TruncDiv(153 * (month + (IF month > 2 THEN -3 ELSE 9)) + 2, 5)
                    + day - 1
             doe == yoe * 365 + TruncDiv(yoe, 4) - TruncDiv(yoe, 100) + doy
         IN  Some(era * 146097 + doe - 719468)

(* days_from_civil dividing the year by 400 without the floor for years    *)
(* before 0.                                                              *)
days_from_civil_trunc_era(year, month, day) ==
    IF month \notin 1..12 THEN None
    ELSE IF day \notin 1..31 THEN None
    ELSE LET y   == year - (IF month <= 2 THEN 1 ELSE 0)
             era == TruncDiv(y, 400)
             yoe == y - era * 400
             doy == TruncDiv(153 * (month + (IF month > 2 THEN -3 ELSE 9)) + 2, 5)
                    + day - 1
             doe == yoe * 365 + TruncDiv(yoe, 4) - TruncDiv(yoe, 100) + doy
         IN  Some(era * 146097 + doe - 719468)

days_from_civil(year, month, day) ==
    IF month \notin 1..12 THEN None
    ELSE IF day \notin 1..31 THEN None
    ELSE LET y   == year - (IF month <= 2 THEN 1 ELSE 0)
             era == TruncDiv(IF y >= 0 THEN y ELSE y - 399, 400)
             yoe == y - era * 400
             doy == TruncDiv(153 * (month + (IF month > 2 THEN -3 ELSE 9)) + 2, 5)
                    + day - 1
             doe == yoe * 365 + TruncDiv(yoe, 4) - TruncDiv(yoe, 100) + doy
         IN  Some(era * 146097 + doe - 719468)

(* civil_from_days with the epoch one day off. *)
civil_from_days_shifted(days) ==
    LET z   == days + 719469
        era == TruncDiv(IF z >= 0 THEN z ELSE z - 146096, 146097)
        doe == z - era * 146097
        yoe == TruncDiv(doe - TruncDiv(doe, 1460) + TruncDiv(doe, 36524)
                        - TruncDiv(doe, 146096), 365)
        y   == yoe + era * 400
        doy == doe - (365 * yoe + TruncDiv(yoe, 4) - TruncDiv(yoe, 100))
        mp  == TruncDiv(5 * doy + 2, 153)
        d   == doy - TruncDiv(153 * mp + 2, 5) + 1
        m   == mp + (IF mp < 10 THEN 3 ELSE -9)
    IN  Some(<<y + (IF m <= 2 THEN 1 ELSE 0), m, d>>)

civil_from_days(days) ==
    LET z   == days + 719468
        era == TruncDiv(IF z >= 0 THEN z ELSE z - 146096, 146097)
        doe == z - era * 146097
        yoe == TruncDiv(doe - TruncDiv(doe, 1460) + TruncDiv(doe, 36524)
                        - TruncDiv(doe, 146096), 365)
        y   == yoe + era * 400
        doy == doe - (365 * yoe + TruncDiv(yoe, 4) - TruncDiv(yoe, 100))
        mp  == TruncDiv(5 * doy + 2, 153)
        d   == doy - TruncDiv(153 * mp + 2, 5) + 1
        m   == mp + (IF mp < 10 THEN 3 ELSE -9)
    IN  Some(<<y + (IF m <= 2 THEN 1 ELSE 0), m, d>>)

(* unix_to_ymd without the test of the sign. *)
unix_to_ymd_any_sign(ts) == civil_from_days(TruncDiv(ts, 86400))

unix_to_ymd(ts) ==
    IF ts < 0 THEN None ELSE civil_from_days(TruncDiv(ts, 86400))

(* The parser without the test of the "T" between date and time. *)
parse_datetime_any_t(cs) ==
    LET s     == Trim(cs)
        split == RSplitOnce(s, "Z")
    IN  IF split = None THEN None
        ELSE IF Unwrap(split)[2] # <<>> THEN None
        ELSE
          LET whole == Unwrap(split)[1]
              dot   == SplitOnce(whole, ".")
              main  == IF dot = None THEN whole ELSE Unwrap(dot)[1]
          IN  IF Len(main) # 19 THEN None
              ELSE
                LET year   == ParseInt(SubSeq(main, 1, 4), TRUE)
                    month  == ParseInt(SubSeq(main, 6, 7), FALSE)
                    day    == ParseInt(SubSeq(main, 9, 10), FALSE)
                    hour   == ParseInt(SubSeq(main, 12, 13), FALSE)
                    minute == ParseInt(SubSeq(main, 15, 16), FALSE)
                    second == ParseInt(SubSeq(main, 18, 19), FALSE)
                IN  IF year = None THEN None
                    ELSE IF main[5] # "-" THEN None
                    ELSE IF month = None THEN None
                    ELSE IF main[8] # "-" THEN None
                    ELSE IF day = None THEN None
                    ELSE IF hour = None THEN None
                    ELSE IF main[14] # ":" THEN None
                    ELSE IF minute = None THEN None
                    ELSE IF main[17] # ":" THEN None
                    ELSE IF second = None THEN None
                    ELSE
                      LET days == days_from_civil(Unwrap(year), Unwrap(month),
                                                  Unwrap(day))
                      IN  IF days = None THEN None
                          ELSE Some(Unwrap(days) * 86400 + Unwrap(hour) * 3600
                                    + Unwrap(minute) * 60 + Unwrap(second))

parse_datetime(cs) ==
    LET s     == Trim(cs)
        split == RSplitOnce(s, "Z")
    IN  IF split = None THEN None
        ELSE IF Unwrap(split)[2] # <<>> THEN None
        ELSE
          LET whole == Unwrap(split)[1]
              dot   == SplitOnce(whole, ".")
              main  == IF dot = None THEN whole ELSE Unwrap(dot)[1]
          IN  IF Len(main) # 19 THEN None
              ELSE
                LET year   == ParseInt(SubSeq(main, 1, 4), TRUE)
                    month  == ParseInt(SubSeq(main, 6, 7), FALSE)
                    day    == ParseInt(SubSeq(main, 9, 10), FALSE)
                    hour   == ParseInt(SubSeq(main, 12, 13), FALSE)
                    minute == ParseInt(SubSeq(main, 15, 16), FALSE)
                    second == ParseInt(SubSeq(main, 18, 19), FALSE)
                IN  IF year = None THEN None
                    ELSE IF main[5] # "-" THEN None
                    ELSE IF month = None THEN None
                    ELSE IF main[8] # "-" THEN None
                    ELSE IF day = None THEN None
                    ELSE IF main[11] # "T" THEN None
                    ELSE IF hour = None THEN None
                    ELSE IF main[14] # ":" THEN None
                    ELSE IF minute = None THEN None
                    ELSE IF main[17] # ":" THEN None
                    ELSE IF second = None THEN None
                    ELSE
                      LET days == days_from_civil(Unwrap(year), Unwrap(month),
                                                  Unwrap(day))
                      IN  IF days = None THEN None
                          ELSE Some(Unwrap(days) * 86400 + Unwrap(hour) * 3600
                                    + Unwrap(minute) * 60 + Unwrap(second))

(* The DateTime texts of the model and their characters. *)
Chars(str) ==
    CASE str = "2024-03-16T08:00:00.750Z" ->
           <<"2","0","2","4","-","0","3","-","1","6","T","0","8",":","0","0",
             ":","0","0",".","7","5","0","Z">>
      [] str = "2024-03-15T10:30:00Z" ->
           <<"2","0","2","4","-","0","3","-","1","5","T","1","0",":","3","0",
             ":","0","0","Z">>
      [] str = "2024-03-10T10:30:00Z" ->
           <<"2","0","2","4","-","0","3","-","1","0","T","1","0",":","3","0",
             ":","0","0","Z">>
      [] str = "2024-03-16T08:00:00+02:00" ->
           <<"2","0","2","4","-","0","3","-","1","6","T","0","8",":","0","0",
             ":","0","0","+","0","2",":","0","0">>

StampNewer == "2024-03-16T08:00:00.750Z"   \* after the cutoff, with a fraction
StampAt    == "2024-03-15T10:30:00Z"   \* 1710498600
StampOld   == "2024-03-10T10:30:00Z"   \* five days earlier
StampBad   == "2024-03-16T08:00:00+02:00"  \* not UTC: does not parse

Stamps == {StampNewer, StampAt, StampOld, StampBad}

(* parse_datetime on the texts of the model, evaluated once. *)
ParsedStamp == [str \in Stamps |-> parse_datetime(Chars(str))]

(* Every DateTime text of the model is in Stamps. *)
parse_github_datetime_to_unix(str) == ParsedStamp[str]

----------------------------------------------------------------------------
(* Bounds of the model and the values the environment draws from. *)

MaxPages   == 2   \* pages the server delivers per stream
MaxPageLen == 2   \* nodes per page
MaxNodes   == 2   \* nodes the server delivers over one run
MaxChecks  == 2   \* checks in a list handed to a derivation
MaxMerges  == 3   \* insertions into one map when merge_into is driven alone

PageSize == 50

(* cutoff_ts values: the instant of StampAt. *)
Cutoffs == {1710498600}

Logins  == {"me", "octo"}
(* pageInfo values the server reports: hasNextPage and endCursor. *)
PageInfos ==
    { [has_next_page |-> FALSE, end_cursor |-> None],
      [has_next_page |-> FALSE, end_cursor |-> Some("c1")],
      [has_next_page |-> TRUE,  end_cursor |-> None],
      [has_next_page |-> TRUE,  end_cursor |-> Some("")],
      [has_next_page |-> TRUE,  end_cursor |-> Some("c1")] }

----------------------------------------------------------------------------
(* src/repo/github/mod.rs: response types *)

Reviewer(typename, login) ==
    [requested_reviewer |-> Some([typename |-> Some(typename), login |-> login])]

ReviewRequests(nodes) == Some([nodes |-> Some(nodes)])

(* PullRequestNode, with the fields the aggregation reads. *)
PullRequestNode(number, title, updated_at, author, review_requests, review_decision) ==
    [number          |-> number,
     title           |-> title,
     url             |-> "https://github.com/koto/app/pull/" \o ToString(number),
     updated_at      |-> updated_at,
     repository      |-> [name |-> "app", owner |-> [login |-> "koto"]],
     author          |-> author,
     review_requests |-> review_requests,
     head_ref_oid    |-> None,
     review_decision |-> review_decision,
     is_draft        |-> None,
     mergeable       |-> None,
     merge_state_status |-> None,
     commits         |-> None,
     reviews         |-> None,
     base_ref        |-> None]

(* SearchNode: every field optional, plus __typename. *)
SearchNode(typename, number, updated_at, author, review_requests, review_decision) ==
    [typename        |-> typename,
     number          |-> number,
     title           |-> Some("from search"),
     url             |-> Some("https://github.com/koto/app/pull/search"),
     updated_at      |-> updated_at,
     repository      |-> Some([name |-> "app", owner |-> [login |-> "koto"]]),
     author          |-> author,
     review_requests |-> review_requests,
     head_ref_oid    |-> None,
     review_decision |-> review_decision,
     is_draft        |-> None,
     mergeable       |-> None,
     merge_state_status |-> None,
     commits         |-> None,
     reviews         |-> None,
     base_ref        |-> None]

into_pull_request(n) ==
    IF n.typename = None THEN None
    ELSE IF Unwrap(n.typename) # "PullRequest" THEN None
    ELSE IF n.number = None THEN None
    ELSE IF n.title = None THEN None
    ELSE IF n.url = None THEN None
    ELSE IF n.updated_at = None THEN None
    ELSE IF n.repository = None THEN None
    ELSE Some([number          |-> Unwrap(n.number),
               title           |-> Unwrap(n.title),
               url             |-> Unwrap(n.url),
               updated_at      |-> Unwrap(n.updated_at),
               repository      |-> Unwrap(n.repository),
               author          |-> n.author,
               review_requests |-> n.review_requests,
               head_ref_oid    |-> n.head_ref_oid,
               review_decision |-> n.review_decision,
               is_draft        |-> n.is_draft,
               mergeable       |-> n.mergeable,
               merge_state_status |-> n.merge_state_status,
               commits         |-> n.commits,
               reviews         |-> n.reviews,
               base_ref        |-> n.base_ref])

(* Nodes the server may put on a page of the authored stream. *)
AuthoredNodes ==
    { PullRequestNode(1, "from authored", StampAt, Some([login |-> "me"]),
                      ReviewRequests(<<>>), Some("APPROVED")),
      PullRequestNode(2, "from authored", StampNewer, None,
                      ReviewRequests(<<Reviewer("User", Some("me"))>>), None),
      PullRequestNode(1, "from authored", StampOld, Some([login |-> "me"]),
                      None, None),
      PullRequestNode(2, "from authored", StampBad, Some([login |-> "me"]),
                      None, None) }

(* Nodes the server may put on a page of the search stream. *)
SearchNodes ==
    { SearchNode(Some("PullRequest"), Some(1), Some(StampNewer), Some([login |-> "octo"]),
                 ReviewRequests(<<Reviewer("Team", None), Reviewer("User", Some("me"))>>),
                 Some("APPROVED")),
      SearchNode(Some("PullRequest"), Some(2), Some(StampAt), Some([login |-> "me"]),
                 ReviewRequests(<<Reviewer("Team", None)>>), None),
      SearchNode(Some("PullRequest"), Some(1), Some(StampOld), Some([login |-> "octo"]),
                 ReviewRequests(<<Reviewer("User", Some("me"))>>), None),
      SearchNode(Some("PullRequest"), Some(2), Some(StampBad), Some([login |-> "octo"]),
                 ReviewRequests(<<Reviewer("User", Some("me"))>>), None),
      [typename |-> Some("Issue"), number |-> None, title |-> None, url |-> None,
       updated_at |-> None, repository |-> None, author |-> None,
       review_requests |-> None, head_ref_oid |-> None, review_decision |-> None,
       is_draft |-> None, mergeable |-> None, merge_state_status |-> None,
       commits |-> None, reviews |-> None, base_ref |-> None],
      SearchNode(Some("PullRequest"), Some(2), None, Some([login |-> "octo"]),
                 ReviewRequests(<<Reviewer("User", Some("me"))>>), None) }

(* All sequences over S of length at most n. *)
SeqsUpTo(S, n) == UNION {[1..k -> S] : k \in 0..n}

----------------------------------------------------------------------------
(* src/repo/github/mod.rs: field derivation *)

(* map_review_state looking at the review decision first. *)
map_review_state_decision_first(node, is_requested) ==
    IF node.review_decision = Some("APPROVED") THEN "Approved"
    ELSE IF is_requested THEN "Requested"
    ELSE "None"

map_review_state(node, is_requested) ==
    IF is_requested THEN "Requested"
    ELSE IF node.review_decision = Some("APPROVED") THEN "Approved"
    ELSE "None"

(* is_review_requested_by_user matching the login of a reviewer of any kind. *)
is_review_requested_by_user_any_kind(node, viewer_login) ==
    IF node.review_requests = None THEN FALSE
    ELSE IF Unwrap(node.review_requests).nodes = None THEN FALSE
    ELSE LET nodes == Unwrap(Unwrap(node.review_requests).nodes)
         IN  \E i \in 1..Len(nodes) :
                /\ nodes[i].requested_reviewer # None
                /\ Unwrap(nodes[i].requested_reviewer).login = Some(viewer_login)

is_review_requested_by_user(node, viewer_login) ==
    IF node.review_requests = None THEN FALSE
    ELSE IF Unwrap(node.review_requests).nodes = None THEN FALSE
    ELSE LET nodes == Unwrap(Unwrap(node.review_requests).nodes)
         IN  \E i \in 1..Len(nodes) :
                /\ nodes[i].requested_reviewer # None
                /\ Unwrap(nodes[i].requested_reviewer).typename = Some("User")
                /\ Unwrap(nodes[i].requested_reviewer).login = Some(viewer_login)

pr_key_of(owner, repo, number) == owner \o "/" \o repo \o "#" \o ToString(number)

KeyOf(node) ==
    pr_key_of(node.repository.owner.login, node.repository.name, node.number)

Parses(node) == parse_github_datetime_to_unix(node.updated_at) # None

(* commits.nodes.first().commit.status_check_rollup, None when any link of *)
(* the chain is missing (lines 388-398 and 402-407).                       *)
status_check_rollup_of(node) ==
    IF node.commits = None THEN None
    ELSE IF Unwrap(node.commits).nodes = None THEN None
    ELSE IF Unwrap(Unwrap(node.commits).nodes) = <<>> THEN None
    ELSE IF Head(Unwrap(Unwrap(node.commits).nodes)).commit = None THEN None
    ELSE Unwrap(Head(Unwrap(Unwrap(node.commits).nodes)).commit).status_check_rollup

(* check_run_state taking a cancelled run for a neutral one. *)
check_run_state_cancel_neutral(conclusion) ==
    IF conclusion = Some("SUCCESS") THEN "Success"
    ELSE IF conclusion = Some("FAILURE") THEN "Failure"
    ELSE IF conclusion \in {Some("NEUTRAL"), Some("SKIPPED"), Some("CANCELLED")}
         THEN "Neutral"
    ELSE "Running"

(* Lines 424-429: the state of a CheckRun from its conclusion. *)
check_run_state(conclusion) ==
    IF conclusion = Some("SUCCESS") THEN "Success"
    ELSE IF conclusion \in {Some("FAILURE"), Some("CANCELLED")} THEN "Failure"
    ELSE IF conclusion \in {Some("NEUTRAL"), Some("SKIPPED")} THEN "Neutral"
    ELSE "Running"

(* Lines 440-445: the state of a StatusContext from its state string. *)
status_context_state(state) ==
    IF state = Some("SUCCESS") THEN "Success"
    ELSE IF state = Some("FAILURE") THEN "Failure"
    ELSE IF state = Some("PENDING") THEN "Running"
    ELSE "None"

(* Lines 418-453: the CiCheck pushed for a CheckRun or a StatusContext. *)
ci_check_of(ctx) ==
    IF ctx.typename = Some("CheckRun")
    THEN [name            |-> IF ctx.name = None THEN "check" ELSE Unwrap(ctx.name),
          state           |-> check_run_state(ctx.conclusion),
          url             |-> IF ctx.details_url # None THEN ctx.details_url
                              ELSE ctx.target_url,
          started_at_unix |-> IF ctx.started_at = None THEN None
                              ELSE parse_github_datetime_to_unix(Unwrap(ctx.started_at))]
    ELSE [name            |-> IF ctx.context = None THEN "status" ELSE Unwrap(ctx.context),
          state           |-> status_context_state(ctx.state),
          url             |-> ctx.target_url,
          started_at_unix |-> None]

(* One check per context of kind CheckRun or StatusContext, in order. *)
map_ci_checks(node) ==
    LET
        status_context_nodes(n) ==
            IF status_check_rollup_of(n) = None THEN <<>>
            ELSE IF Unwrap(status_check_rollup_of(n)).contexts = None THEN <<>>
            ELSE IF Unwrap(Unwrap(status_check_rollup_of(n)).contexts).nodes = None THEN <<>>
            ELSE Unwrap(Unwrap(Unwrap(status_check_rollup_of(n)).contexts).nodes)
    IN
        LET kinds == {Some("CheckRun"), Some("StatusContext")}
            kept  == SelectSeq(status_context_nodes(node), LAMBDA ctx : ctx.typename \in kinds)
        IN  [i \in 1..Len(kept) |-> ci_check_of(kept[i])]

(* Lines 480-485: the state the platform's roll-up string stands for. *)
rollup_ci_state(rollup) ==
    IF rollup = Some("SUCCESS") THEN "Success"
    ELSE IF rollup = Some("FAILURE") THEN "Failure"
    ELSE IF rollup \in {Some("PENDING"), Some("IN_PROGRESS")} THEN "Running"
    ELSE "None"

(* derive_ci_state giving the state of the first check that is running,    *)
(* failed or successful.                                                   *)
derive_ci_state_first_wins(rollup, checks) ==
    LET decided == SelectSeq(checks, LAMBDA c : c.state \in {"Running", "Failure", "Success"})
    IN  IF decided # <<>> THEN Head(decided).state ELSE rollup_ci_state(rollup)

(* derive_ci_state asking the platform's roll-up first. *)
derive_ci_state_rollup_first(rollup, checks) ==
    IF rollup_ci_state(rollup) # "None" THEN rollup_ci_state(rollup)
    ELSE IF \E i \in 1..Len(checks) : checks[i].state = "Running" THEN "Running"
    ELSE IF \E i \in 1..Len(checks) : checks[i].state = "Failure" THEN "Failure"
    ELSE IF \E i \in 1..Len(checks) : checks[i].state = "Success" THEN "Success"
    ELSE "None"

derive_ci_state(rollup, checks) ==
    IF \E i \in 1..Len(checks) : checks[i].state = "Running" THEN "Running"
    ELSE IF \E i \in 1..Len(checks) : checks[i].state = "Failure" THEN "Failure"
    ELSE IF \E i \in 1..Len(checks) : checks[i].state = "Success" THEN "Success"
    ELSE rollup_ci_state(rollup)

(* The texts of mergeable and mergeStateStatus, by character. *)
StateChars(str) ==
    CASE str = "CONFLICTING" -> <<"C","O","N","F","L","I","C","T","I","N","G">>
      [] str = "Conflicting" -> <<"C","o","n","f","l","i","c","t","i","n","g">>
      [] str = "MERGEABLE"   -> <<"M","E","R","G","E","A","B","L","E">>
      [] str = "BEHIND"      -> <<"B","E","H","I","N","D">>
      [] str = "behind"      -> <<"b","e","h","i","n","d">>
      [] str = "CLEAN"       -> <<"C","L","E","A","N">>

to_ascii_lowercase(c) ==
    LET
        UpperLetters ==
            <<"A","B","C","D","E","F","G","H","I","J","K","L","M",
              "N","O","P","Q","R","S","T","U","V","W","X","Y","Z">>
        LowerLetters ==
            <<"a","b","c","d","e","f","g","h","i","j","k","l","m",
              "n","o","p","q","r","s","t","u","v","w","x","y","z">>
    IN
        IF \E i \in 1..Len(UpperLetters) : UpperLetters[i] = c
        THEN LowerLetters[CHOOSE i \in 1..Len(UpperLetters) : UpperLetters[i] = c]
        ELSE c

(* str::eq_ignore_ascii_case *)
eq_ignore_ascii_case(a, b) ==
    /\ Len(a) = Len(b)
    /\ \A i \in 1..Len(a) : to_ascii_lowercase(a[i]) = to_ascii_lowercase(b[i])

(* `as u32` of a count: a GraphQL count is not negative and keeps its value. *)
as_u32(c) == c

(* Lines 527-539: required_approvals and required_checks. *)
branch_protection_of(node) ==
    IF node.base_ref = None THEN [approvals |-> None, checks |-> <<>>]
    ELSE IF Unwrap(node.base_ref).branch_protection_rule = None
         THEN [approvals |-> None, checks |-> <<>>]
    ELSE LET bpr == Unwrap(Unwrap(node.base_ref).branch_protection_rule)
         IN  [approvals |-> IF bpr.required_approving_review_count = None THEN None
                            ELSE Some(as_u32(Unwrap(bpr.required_approving_review_count))),
              checks    |-> IF bpr.required_status_check_contexts = None THEN <<>>
                            ELSE Unwrap(bpr.required_status_check_contexts)]

(* failing_required_checks taking every check that did not fail for passed. *)
failing_required_checks_of_failed_only(required_checks, ci_checks) ==
    LET failed == {ci_checks[i].name :
                      i \in {j \in 1..Len(ci_checks) : ci_checks[j].state = "Failure"}}
    IN  SelectSeq(required_checks, LAMBDA name : name \in failed)

(* Lines 547-557: the required checks without a successful check of their name. *)
failing_required_checks_of(required_checks, ci_checks) ==
    LET check_names_success ==
            {ci_checks[i].name :
                i \in {j \in 1..Len(ci_checks) : ci_checks[j].state = "Success"}}
    IN  SelectSeq(required_checks, LAMBDA name : name \notin check_names_success)

compute_merge_blockers(node, ci_checks) ==
    LET protection == branch_protection_of(node)
    IN  [has_conflicts  |-> /\ node.mergeable # None
                            /\ eq_ignore_ascii_case(StateChars(Unwrap(node.mergeable)),
                                                    StateChars("CONFLICTING")),
         required_approvals |-> protection.approvals,
         current_approvals  |-> IF node.reviews = None THEN 0
                                ELSE IF Unwrap(node.reviews).total_count = None THEN 0
                                ELSE as_u32(Unwrap(Unwrap(node.reviews).total_count)),
         required_checks    |-> protection.checks,
         failing_required_checks |->
             failing_required_checks_of(protection.checks, ci_checks),
         is_behind_base |-> /\ node.merge_state_status # None
                            /\ eq_ignore_ascii_case(StateChars(Unwrap(node.merge_state_status)),
                                                    StateChars("BEHIND"))]

(* is_clear without the comparison of the approvals. *)
is_clear_ignores_approvals(blockers) ==
    /\ ~blockers.has_conflicts
    /\ ~blockers.is_behind_base
    /\ blockers.failing_required_checks = <<>>

(* src/repo/github/model.rs: MergeBlockers::is_clear *)
is_clear(blockers) ==
    /\ ~blockers.has_conflicts
    /\ ~blockers.is_behind_base
    /\ blockers.failing_required_checks = <<>>
    /\ IF blockers.required_approvals = None THEN TRUE
       ELSE blockers.current_approvals >= Unwrap(blockers.required_approvals)

(* surfaced_blockers keeping the blockers whatever they say. *)
surfaced_blockers_always(merge_blockers) == Some(merge_blockers)

(* Lines 590-595: the blockers are kept only when they are not clear. *)
surfaced_blockers(merge_blockers) ==
    IF is_clear(merge_blockers) THEN None ELSE Some(merge_blockers)

to_pr(node, is_requested, viewer_login) ==
    LET
        rollup_state(n) ==
            IF status_check_rollup_of(n) = None THEN None
            ELSE Unwrap(status_check_rollup_of(n)).state
    IN
        LET ci_checks       == map_ci_checks(node)
            review_state    == map_review_state(node, is_requested)
            owner           == node.repository.owner.login
            repo            == node.repository.name
            author          == IF node.author = None THEN "unknown"
                               ELSE Unwrap(node.author).login
            updated_at_unix == parse_github_datetime_to_unix(node.updated_at)
        IN  IF updated_at_unix = None THEN None
            ELSE Some([pr_key           |-> pr_key_of(owner, repo, node.number),
                       owner            |-> owner,
                       repo             |-> repo,
                       number           |-> node.number,
                       author           |-> author,
                       title            |-> node.title,
                       url              |-> node.url,
                       updated_at_unix  |-> Unwrap(updated_at_unix),
                       last_commit_sha  |-> node.head_ref_oid,
                       ci_state         |-> derive_ci_state(rollup_state(node), ci_checks),
                       ci_checks        |-> ci_checks,
                       review_state     |-> review_state,
                       is_draft         |-> IF node.is_draft = None THEN FALSE
                                            ELSE Unwrap(node.is_draft),
                       mergeable        |-> node.mergeable,
                       merge_state_status |-> node.merge_state_status,
                       is_viewer_author |-> /\ node.author # None
                                            /\ Unwrap(node.author).login = viewer_login,
                       merge_blockers   |->
                           surfaced_blockers(compute_merge_blockers(node, ci_checks))])

(* HashMap<String, Pr> as a function from the keys present to records. *)
EmptyMap == [k \in {} |-> None]

(* merge_into without the carried flag. *)
merge_into_overwrite(map, pr) ==
    [k \in DOMAIN map \cup {pr.pr_key} |-> IF k = pr.pr_key THEN pr ELSE map[k]]

(* merge_into storing the record under its key and title. *)
merge_into_by_title(map, pr) ==
    LET key     == pr.pr_key \o " " \o pr.title
        carried == IF key \in DOMAIN map /\ map[key].is_viewer_author
                   THEN [pr EXCEPT !.is_viewer_author = TRUE]
                   ELSE pr
    IN  [k \in DOMAIN map \cup {key} |-> IF k = key THEN carried ELSE map[k]]

merge_into(map, pr) ==
    LET carried == IF pr.pr_key \in DOMAIN map /\ map[pr.pr_key].is_viewer_author
                   THEN [pr EXCEPT !.is_viewer_author = TRUE]
                   ELSE pr
    IN  [k \in DOMAIN map \cup {pr.pr_key} |->
            IF k = pr.pr_key THEN carried ELSE map[k]]

----------------------------------------------------------------------------
(* src/repo/github/mod.rs: fetch_attention_prs *)

VARIABLES
    cutoff_ts,              \* argument
    include_team_requests,  \* argument
    pc,                     \* "authored", "search": about to send a request;
                            \* "authored_await", "search_await": awaiting it;
                            \* "merge"; "done"
    authored,               \* Vec<PullRequestNode> kept from stream (a)
    cursor,                 \* Option<String> of the running loop
    viewer_login,           \* Option<String>
    requested_nodes,        \* Vec<PullRequestNode> kept from stream (b)
    by_key,                 \* HashMap<String, Pr>
    resp,                   \* the response in flight, None when there is none
    outcomes,               \* every Result the call has returned, in order
    requests,               \* every GraphQL request sent, in order, each with
                            \* what the server answered
    served,                 \* nodes the server has delivered so far
    inserted,               \* records passed to merge_into when it is driven
                            \* alone, in order
    call,                   \* a function of the module applied on its own:
                            \* its name and arguments, None when there is none
    result,                 \* what the applications of `call` returned, in order
    app                     \* the fields of App, None when the call is not
                            \* made by an App

vars == <<cutoff_ts, include_team_requests, pc, authored, cursor, viewer_login,
          requested_nodes, by_key, resp, outcomes, requests, served, inserted, call, result,
          app>>

Streams == {"authored", "search"}

Min2(a, b) == IF a <= b THEN a ELSE b

(* min_with counting an updated-at that was not parsed as the epoch. *)
min_with_unparsed_as_epoch(min_updated, u) ==
    IF u = None THEN Some(0)
    ELSE IF min_updated = None THEN u
    ELSE Some(Min2(Unwrap(min_updated), Unwrap(u)))

(* min_updated after a node with parsed updated-at u (None: not parsed).   *)
min_with(min_updated, u) ==
    IF u = None THEN min_updated
    ELSE IF min_updated = None THEN u
    ELSE Some(Min2(Unwrap(min_updated), Unwrap(u)))

(* authored_scan leaving the page at the first node before the cutoff. *)
RECURSIVE authored_scan_stop_at_old(_, _, _, _)
authored_scan_stop_at_old(nodes, keep, min_updated, cutoff) ==
    IF nodes = <<>> THEN [keep |-> keep, min_updated |-> min_updated]
    ELSE LET n   == Head(nodes)
             u   == parse_github_datetime_to_unix(n.updated_at)
             old == u # None /\ Unwrap(u) < cutoff
         IN  authored_scan_stop_at_old(
                IF old THEN <<>> ELSE Tail(nodes),
                IF u # None /\ Unwrap(u) >= cutoff THEN Append(keep, n) ELSE keep,
                min_with(min_updated, u),
                cutoff)

(* authored_scan without the comparison against the cutoff. *)
RECURSIVE authored_scan_keep_all(_, _, _, _)
authored_scan_keep_all(nodes, keep, min_updated, cutoff) ==
    IF nodes = <<>> THEN [keep |-> keep, min_updated |-> min_updated]
    ELSE LET n == Head(nodes)
             u == parse_github_datetime_to_unix(n.updated_at)
         IN  authored_scan_keep_all(
                Tail(nodes),
                IF u # None THEN Append(keep, n) ELSE keep,
                min_with(min_updated, u),
                cutoff)

(* The loop over the nodes of an authored page (lines 652-661): returns    *)
(* keep and min_updated.                                                   *)
RECURSIVE authored_scan(_, _, _, _)
authored_scan(nodes, keep, min_updated, cutoff) ==
    IF nodes = <<>> THEN [keep |-> keep, min_updated |-> min_updated]
    ELSE LET n == Head(nodes)
             u == parse_github_datetime_to_unix(n.updated_at)
         IN  authored_scan(
                Tail(nodes),
                IF u # None /\ Unwrap(u) >= cutoff THEN Append(keep, n) ELSE keep,
                min_with(min_updated, u),
                cutoff)

(* The loop over the nodes of a search page (lines 712-725): returns the   *)
(* nodes pushed to requested_nodes and min_updated.                        *)
RECURSIVE search_scan(_, _, _, _, _, _)
search_scan(nodes, pushed, min_updated, cutoff, include_team, login) ==
    IF nodes = <<>> THEN [pushed |-> pushed, min_updated |-> min_updated]
    ELSE LET opt  == into_pull_request(Head(nodes))
             u    == IF opt = None THEN None
                     ELSE parse_github_datetime_to_unix(Unwrap(opt).updated_at)
             push == /\ opt # None
                     /\ ~(u # None /\ Unwrap(u) < cutoff)
                     /\ \/ include_team
                        \/ is_review_requested_by_user(Unwrap(opt), login)
         IN  search_scan(
                Tail(nodes),
                IF push THEN Append(pushed, Unwrap(opt)) ELSE pushed,
                min_with(min_updated, u),
                cutoff, include_team, login)

(* loop_breaks without the exit on a page older than the cutoff. *)
loop_breaks_no_early_stop(has_nodes, min_updated, cutoff, has_next_page, end_cursor) ==
    \/ ~has_next_page
    \/ end_cursor = None

(* loop_breaks without the exit on a missing cursor. *)
loop_breaks_no_cursor_check(has_nodes, min_updated, cutoff, has_next_page, end_cursor) ==
    \/ has_nodes /\ min_updated # None /\ Unwrap(min_updated) < cutoff
    \/ ~has_next_page

(* loop_breaks without the exit on hasNextPage = false. *)
loop_breaks_ignores_has_next(has_nodes, min_updated, cutoff, has_next_page, end_cursor) ==
    \/ has_nodes /\ min_updated # None /\ Unwrap(min_updated) < cutoff
    \/ end_cursor = None

(* loop_breaks leaving the loop after every page. *)
loop_breaks_always(has_nodes, min_updated, cutoff, has_next_page, end_cursor) ==
    TRUE

(* The three exits of a pagination loop (lines 663-674 and 726-737): TRUE  *)
(* when the loop breaks after this page.                                   *)
loop_breaks(has_nodes, min_updated, cutoff, has_next_page, end_cursor) ==
    \/ has_nodes /\ min_updated # None /\ Unwrap(min_updated) < cutoff
    \/ ~has_next_page
    \/ end_cursor = None

(* The authored loop breaking before the page's nodes are appended. *)
RECURSIVE authored_stream_break_first(_, _, _)
authored_stream_break_first(pages, kept, cutoff) ==
    IF pages = <<>> THEN kept
    ELSE LET r    == Head(pages)
             prs  == IF r.nodes = None THEN <<>> ELSE Unwrap(r.nodes)
             scan == authored_scan(prs, <<>>, None, cutoff)
             stop == loop_breaks(r.nodes # None, scan.min_updated, cutoff,
                                 r.page_info.has_next_page, r.page_info.end_cursor)
         IN  IF stop THEN kept
             ELSE authored_stream_break_first(Tail(pages), kept \o scan.keep, cutoff)

(* The authored loop (lines 633-675) run against a whole stream: `pages`   *)
(* are the pages the server holds, in the order it hands them out, one per *)
(* request; the value is `authored` when the loop is left.                 *)
RECURSIVE authored_stream(_, _, _)
authored_stream(pages, kept, cutoff) ==
    IF pages = <<>> THEN kept
    ELSE LET r    == Head(pages)
             prs  == IF r.nodes = None THEN <<>> ELSE Unwrap(r.nodes)
             scan == authored_scan(prs, <<>>, None, cutoff)
             stop == loop_breaks(r.nodes # None, scan.min_updated, cutoff,
                                 r.page_info.has_next_page, r.page_info.end_cursor)
         IN  IF stop THEN kept \o scan.keep
             ELSE authored_stream(Tail(pages), kept \o scan.keep, cutoff)

Pad(n, width) ==
    LET str == ToString(n)
    IN  IF Len(str) >= width THEN str
        ELSE IF width - Len(str) = 1 THEN "0" \o str
        ELSE IF width - Len(str) = 2 THEN "00" \o str
        ELSE "000" \o str

(* search_query_of writing the date without leading zeros. *)
search_query_of_unpadded(cutoff) ==
    LET ymd == unix_to_ymd(cutoff)
        cutoff_date == IF ymd = None THEN "1970-01-01"
                       ELSE ToString(Unwrap(ymd)[1]) \o "-" \o ToString(Unwrap(ymd)[2])
                            \o "-" \o ToString(Unwrap(ymd)[3])
    IN  "is:pr is:open review-requested:@me sort:updated-desc updated:>="
        \o cutoff_date

search_query_of(cutoff) ==
    LET ymd == unix_to_ymd(cutoff)
        cutoff_date == IF ymd = None THEN "1970-01-01"
                       ELSE Pad(Unwrap(ymd)[1], 4) \o "-" \o Pad(Unwrap(ymd)[2], 2)
                            \o "-" \o Pad(Unwrap(ymd)[3], 2)
    IN  "is:pr is:open review-requested:@me sort:updated-desc updated:>="
        \o cutoff_date

(* next_cursor keeping the last cursor when the loop is left. *)
next_cursor_kept(stop, end_cursor) == end_cursor

(* Lines 671 and 734: the loop goes on with the endCursor of the page.     *)
(* When the loop is left its cursor is dropped: the search loop starts     *)
(* with a cursor of its own that is None (line 688).                       *)
next_cursor(stop, end_cursor) == IF stop THEN None ELSE end_cursor

(* viewer_login taking the login of every page. *)
viewer_login_after_latest(current, login) == Some(login)

(* Lines 647-649: the login of a page is taken when none is known yet. *)
viewer_login_after(current, login) ==
    IF current = None THEN Some(login) ELSE current

(* Line 677: the login the search stream and the merge stage work with. *)
ViewerLogin == IF viewer_login = None THEN "unknown" ELSE Unwrap(viewer_login)

----------------------------------------------------------------------------
(* The server.  A response is a failure of the request or a decoded page.  *)

RequestsOf(stream) == SelectSeq(requests, LAMBDA r : r.stream = stream)

NodeCount(nodes) == IF nodes = None THEN 0 ELSE Len(Unwrap(nodes))

(* The server delivers at most MaxPages pages per stream: the last of them  *)
(* reports no further page.                                                *)
MayRequest(stream) == Len(RequestsOf(stream)) < MaxPages

PagePrs(page) ==
    LET
        (* Decoded pull requests of a search page. *)
        SearchPrs(nodes) ==
            LET decoded == [i \in 1..Len(nodes) |-> into_pull_request(nodes[i])]
                some    == SelectSeq(decoded, LAMBDA o : o # None)
            IN  [i \in 1..Len(some) |-> Unwrap(some[i])]
    IN
        IF page.nodes = None THEN <<>>
        ELSE IF page.stream = "search" THEN SearchPrs(Unwrap(page.nodes))
        ELSE Unwrap(page.nodes)

(* Some pull request of the page has a parsed updated-at before the cutoff, *)
(* that is, the minimum over the page is before the cutoff.                *)
PageOlder(page, cutoff) ==
    LET
        ParsedStamps(prs) ==
            {Unwrap(parse_github_datetime_to_unix(prs[i].updated_at)) :
                i \in {j \in 1..Len(prs) : parse_github_datetime_to_unix(prs[j].updated_at) # None}}
    IN
        \E u \in ParsedStamps(PagePrs(page)) : u < cutoff

PageNodeSeqs(S) == {None} \cup {Some(s) : s \in SeqsUpTo(S, MaxPageLen)}

(* Every page a stream can show. *)
AllAuthoredPages ==
    {[failed |-> FALSE, stream |-> "authored", login |-> login, nodes |-> nodes,
      page_info |-> pi] :
        login \in Logins, nodes \in PageNodeSeqs(AuthoredNodes), pi \in PageInfos}

AllSearchPages ==
    {[failed |-> FALSE, stream |-> "search", nodes |-> nodes, page_info |-> pi] :
        nodes \in PageNodeSeqs(SearchNodes), pi \in PageInfos}

(* The pages the server may answer with now.  The viewer of the run is     *)
(* "me": the first page reports that login, a later page may report        *)
(* another one (the account was renamed meanwhile).                        *)
Deliverable(page) ==
    LET
        LastPage(stream) == Len(RequestsOf(stream)) + 1 >= MaxPages
    IN
        /\ NodeCount(page.nodes) <= MaxNodes - served
        /\ LastPage(page.stream) => ~page.page_info.has_next_page
        /\ (page.stream = "authored" /\ RequestsOf("authored") = <<>>) =>
              page.login = "me"

AuthoredPages == {page \in AllAuthoredPages : Deliverable(page)}

Lacks(raw) ==
    LET
        (* The JSON object of a node: each of the five fields PullRequestNode      *)
        (* requires is there or not.                                               *)
        RequiredFields == {"number", "title", "url", "updated_at", "repository"}
    IN
        \E f \in RequiredFields : raw[f] = None

RawNode(n) ==
    [n EXCEPT !.number = Some(@), !.title = Some(@), !.url = Some(@),
              !.updated_at = Some(@), !.repository = Some(@)]

RawAuthoredNodes ==
    { RawNode(n) : n \in AuthoredNodes }
        \cup { [RawNode(PullRequestNode(2, "from authored", StampNewer,
                                         Some([login |-> "me"]), None, None))
                  EXCEPT !.title = None],
               [RawNode(PullRequestNode(1, "from authored", StampAt,
                                         Some([login |-> "me"]), None, None))
                  EXCEPT !.updated_at = None] }

(* A node of the body lacks a field PullRequestNode requires. *)
LacksField(body) ==
    /\ ~body.failed
    /\ body.nodes # None
    /\ \E i \in 1..Len(Unwrap(body.nodes)) : Lacks(Unwrap(body.nodes)[i])

(* The bodies the server may answer the authored query with: the pages   *)
(* as JSON, and the bodies in which a node lacks a required field.         *)
AuthoredBodies ==
    { [page EXCEPT !.nodes = IF @ = None THEN None
                             ELSE Some([i \in 1..Len(Unwrap(@)) |->
                                          RawNode(Unwrap(@)[i])])] :
        page \in AuthoredPages }
      \cup
    { body \in
        {[failed |-> FALSE, stream |-> "authored", login |-> login, nodes |-> nodes,
          page_info |-> pi] :
            login \in Logins, nodes \in PageNodeSeqs(RawAuthoredNodes),
            pi \in PageInfos} :
        Deliverable(body) /\ LacksField(body) }

(* The derived Deserialize of PullRequestNode: every required field must   *)
(* be there.                                                               *)
decode_node(raw) ==
    IF Lacks(raw) THEN None
    ELSE Some([raw EXCEPT !.number = Unwrap(@), !.title = Unwrap(@),
                          !.url = Unwrap(@), !.updated_at = Unwrap(@),
                          !.repository = Unwrap(@)])

(* Decoding that leaves out the nodes it cannot decode. *)
decode_authored_skipping(body) ==
    IF body.failed \/ body.nodes = None THEN body
    ELSE LET decoded == [i \in 1..Len(Unwrap(body.nodes)) |->
                            decode_node(Unwrap(body.nodes)[i])]
             some    == SelectSeq(decoded, LAMBDA o : o # None)
         IN  [body EXCEPT !.nodes = Some([i \in 1..Len(some) |-> Unwrap(some[i])])]

(* Lines 642-645: the body is decoded as GraphQlResponse<AuthoredData>; a  *)
(* node that cannot be decoded makes the decoding of the response fail.    *)
decode_authored(body) ==
    IF body.failed \/ body.nodes = None THEN body
    ELSE LET decoded == [i \in 1..Len(Unwrap(body.nodes)) |->
                            decode_node(Unwrap(body.nodes)[i])]
         IN  IF \E i \in 1..Len(decoded) : decoded[i] = None
             THEN [failed |-> TRUE, stream |-> "authored", cause |-> "decode"]
             ELSE [body EXCEPT !.nodes = Some([i \in 1..Len(decoded) |->
                                                 Unwrap(decoded[i])])]

SearchPages == {page \in AllSearchPages : Deliverable(page)}

FailedResponses(stream) ==
    LET
        Failures == {"transport", "status", "decode"}
    IN
        {[failed |-> TRUE, stream |-> stream, cause |-> cause] : cause \in Failures}

(* What the log of requests keeps of the answer. *)
Answer(r) ==
    IF r.failed THEN [failed |-> TRUE, older |-> FALSE,
                      page_info |-> [has_next_page |-> FALSE, end_cursor |-> None]]
    ELSE [failed |-> FALSE, older |-> PageOlder(r, cutoff_ts), page_info |-> r.page_info]

(* query_failed handing back what the authored stream had kept. *)
query_failed_partial(query, cause) ==
    [ok |-> FALSE, query |-> query, cause |-> cause,
     prs |-> {[pr_key |-> KeyOf(authored[i])] : i \in 1..Len(authored)}]

(* Lines 645 and 709: the Err the call returns when a request fails. *)
query_failed(query, cause) ==
    [ok |-> FALSE, query |-> query, cause |-> cause, prs |-> {}]

(* Line 756: the Ok the call returns. *)
values_of(map) ==
    [ok |-> TRUE, query |-> "", cause |-> "", prs |-> {map[k] : k \in DOMAIN map}]

Init ==
    /\ cutoff_ts \in Cutoffs
    /\ include_team_requests \in BOOLEAN
    /\ pc = "authored"
    /\ authored = <<>>
    /\ cursor = None
    /\ viewer_login = None
    /\ requested_nodes = <<>>
    /\ by_key = EmptyMap
    /\ resp = None
    /\ outcomes = <<>>
    /\ requests = <<>>
    /\ served = 0
    /\ inserted = <<>>
    /\ call = None
    /\ result = <<>>
    /\ app = None

(* Lines 634-644: the authored query is sent and the call awaits it. *)
AuthoredRequest ==
    /\ pc = "authored"
    /\ MayRequest("authored")
    /\ \E body \in AuthoredBodies \cup FailedResponses("authored") :
          LET r == decode_authored(body)
          IN  /\ resp' = Some(r)
              /\ requests' = Append(requests,
                                [stream |-> "authored", page_size |-> PageSize,
                                 cursor |-> cursor, search_query |-> None,
                                 lacking |-> LacksField(body),
                                 login |-> IF r.failed THEN None ELSE Some(r.login),
                                 answer |-> Answer(r)])
              /\ served' = served + (IF r.failed THEN 0 ELSE NodeCount(r.nodes))
    /\ pc' = "authored_await"
    /\ UNCHANGED <<cutoff_ts, include_team_requests, authored, cursor, viewer_login,
                   requested_nodes, by_key, outcomes, inserted, call, result, app>>

(* Lines 645-675: the rest of the iteration, once the response is there. *)
AuthoredResponse ==
    /\ pc = "authored_await"
    /\ resp' = None
    /\ LET r == Unwrap(resp)
       IN  IF r.failed
           THEN /\ outcomes' = Append(outcomes, query_failed("authored", r.cause))
                /\ pc' = "done"
                /\ UNCHANGED <<authored, cursor, viewer_login>>
           ELSE LET prs  == IF r.nodes = None THEN <<>> ELSE Unwrap(r.nodes)
                    scan == authored_scan(prs, <<>>, None, cutoff_ts)
                    stop == loop_breaks(r.nodes # None, scan.min_updated, cutoff_ts,
                                        r.page_info.has_next_page,
                                        r.page_info.end_cursor)
                IN  /\ viewer_login' = viewer_login_after(viewer_login, r.login)
                    /\ authored' = authored \o scan.keep
                    /\ pc' = IF stop THEN "search" ELSE "authored"
                    /\ cursor' = next_cursor(stop, r.page_info.end_cursor)
                    /\ UNCHANGED outcomes
    /\ UNCHANGED <<cutoff_ts, include_team_requests, requested_nodes, by_key,
                   requests, served, inserted, call, result, app>>

(* The query string is built once per run, before the search loop. *)
SearchQueries == [c \in Cutoffs |-> search_query_of(c)]

(* Lines 697-708: the search query is sent and the call awaits it. *)
SearchRequest ==
    /\ pc = "search"
    /\ MayRequest("search")
    /\ \E r \in SearchPages \cup FailedResponses("search") :
          /\ resp' = Some(r)
          /\ requests' = Append(requests,
                            [stream |-> "search", page_size |-> PageSize,
                             cursor |-> cursor,
                             search_query |-> Some(SearchQueries[cutoff_ts]),
                             lacking |-> LacksField(r),
                             login |-> None,
                             answer |-> Answer(r)])
          /\ served' = served + (IF r.failed THEN 0 ELSE NodeCount(r.nodes))
    /\ pc' = "search_await"
    /\ UNCHANGED <<cutoff_ts, include_team_requests, authored, cursor, viewer_login,
                   requested_nodes, by_key, outcomes, inserted, call, result, app>>

(* Lines 709-738: the rest of the iteration, once the response is there. *)
SearchResponse ==
    /\ pc = "search_await"
    /\ resp' = None
    /\ LET r == Unwrap(resp)
       IN  IF r.failed
           THEN /\ outcomes' = Append(outcomes,
                                       query_failed("review-requested", r.cause))
                /\ pc' = "done"
                /\ UNCHANGED <<requested_nodes, cursor>>
           ELSE LET sns  == IF r.nodes = None THEN <<>> ELSE Unwrap(r.nodes)
                    scan == search_scan(sns, <<>>, None, cutoff_ts,
                                        include_team_requests, ViewerLogin)
                    stop == loop_breaks(r.nodes # None, scan.min_updated, cutoff_ts,
                                        r.page_info.has_next_page,
                                        r.page_info.end_cursor)
                IN  /\ requested_nodes' = requested_nodes \o scan.pushed
                    /\ pc' = IF stop THEN "merge" ELSE "search"
                    /\ cursor' = next_cursor(stop, r.page_info.end_cursor)
                    /\ UNCHANGED outcomes
    /\ UNCHANGED <<cutoff_ts, include_team_requests, authored, viewer_login, by_key,
                   requests, served, inserted, call, result, app>>

(* Lines 743-746: the record of an authored node, forced to is_viewer_author. *)
authored_record(node, login) ==
    LET opt == to_pr(node, is_review_requested_by_user(node, login), login)
    IN  IF opt = None THEN None
        ELSE Some([Unwrap(opt) EXCEPT !.is_viewer_author = TRUE])

(* The for loops of lines 742 and 750: each record that was built is      *)
(* merged, in order; a node without a record is passed over.               *)
RECURSIVE merge_all(_, _)
merge_all(map, records) ==
    IF records = <<>> THEN map
    ELSE merge_all(IF Head(records) = None THEN map
                   ELSE merge_into(map, Unwrap(Head(records))),
                   Tail(records))

(* Lines 742-748: the authored nodes, each merged as its record. *)
merge_authored(map, nodes, login) ==
    merge_all(map, [i \in 1..Len(nodes) |-> authored_record(nodes[i], login)])

(* merge_requested passing the node's own review request instead of true. *)
merge_requested_not_forced(map, nodes, login) ==
    merge_all(map, [i \in 1..Len(nodes) |->
                       to_pr(nodes[i], is_review_requested_by_user(nodes[i], "unknown"),
                             login)])

(* Lines 750-754: the requested nodes, each with is_requested = true. *)
merge_requested(map, nodes, login) ==
    merge_all(map, [i \in 1..Len(nodes) |-> to_pr(nodes[i], TRUE, login)])

(* Lines 740-756: the merge stage and the return of its values.  The Vec   *)
(* returned has one element per map entry, in no fixed order: it is kept   *)
(* as the set of the map's values.                                         *)
MergeStage ==
    /\ pc = "merge"
    /\ by_key' = merge_requested(merge_authored(EmptyMap, authored, ViewerLogin),
                                 requested_nodes, ViewerLogin)
    /\ outcomes' = Append(outcomes, values_of(by_key'))
    /\ pc' = "done"
    /\ UNCHANGED <<cutoff_ts, include_team_requests, authored, cursor, viewer_login,
                   requested_nodes, resp, requests, served, inserted, call, result, app>>

Next ==
    \/ AuthoredRequest
    \/ AuthoredResponse
    \/ SearchRequest
    \/ SearchResponse
    \/ MergeStage

Spec == Init /\ [][Next]_vars

(* The call runs on a worker until it returns: no step that is possible is *)
(* put off forever.                                                        *)
FairSpec == Spec /\ WF_vars(Next)

(***************************************************************************)
(* App: the sync of GitHub pull requests into the todo repository          *)
(* (app.rs 227-297).  The worker thread that start_sync_github spawns is    *)
(* the call of fetch_attention_prs above; the outcome it sends is the one   *)
(* the call returns.                                                        *)
(***************************************************************************)

(* Syncs one App starts. *)
MaxSyncs == 1

(* should_add_todo taking the pull requests of the viewer as well. *)
should_add_todo_authored(pr) ==
    pr.review_state = "Requested" \/ pr.is_viewer_author

(* usecase/attention.rs 5-7. *)
should_add_todo(pr) == pr.review_state = "Requested"

(* app.rs 409-422: priority and due date, the due date as days from today. *)
classify_pr_task(pr) ==
    LET
        (* The characters of the author logins of the model. *)
        AuthorChars(author) ==
            CASE author = "me"      -> <<"m", "e">>
              [] author = "octo"    -> <<"o", "c", "t", "o">>
              [] author = "unknown" -> <<"u", "n", "k", "n", "o", "w", "n">>
        RenovateLogins ==
            { <<"r","e","n","o","v","a","t","e">>,
              <<"r","e","n","o","v","a","t","e","-","b","o","t">>,
              <<"r","e","n","o","v","a","t","e","[","b","o","t","]">> }
    IN
        IF \E login \in RenovateLogins : eq_ignore_ascii_case(AuthorChars(pr.author), login)
        THEN [priority |-> "Medium", due |-> Some(30)]
        ELSE [priority |-> "High", due |-> Some(0)]

(* Lines 268-273 of app.rs: title and external key of the todo of a pull   *)
(* request.                                                                *)
todo_title(pr) ==
    pr.owner \o "/" \o pr.repo \o "#" \o ToString(pr.number) \o " by " \o pr.author
        \o ": " \o pr.title

external_key_of(pr) ==
    "github_pr:" \o pr.owner \o "/" \o pr.repo \o "#" \o ToString(pr.number)

(* TodoRepository::add appending a todo whatever the repository holds. *)
repo_add_always_new(items, id, title, priority, due, external_url, external_key) ==
    Append(items, [id |-> id, title |-> title, done |-> FALSE,
                   priority |-> priority, due |-> due, created_at |-> id,
                   external_url |-> external_url,
                   external_key |-> external_key])

(* TodoRepository::add (memory.rs 24-48, sqlite.rs 48-89): a todo with the *)
(* same external key gets the title and the URL, otherwise a new todo is   *)
(* appended.  `id` is the fresh id, which is also the time of creation.    *)
repo_add(items, id, title, priority, due, external_url, external_key) ==
    IF external_key # None
       /\ \E i \in 1..Len(items) : items[i].external_key = external_key
    THEN LET k == CHOOSE i \in 1..Len(items) :
                     /\ items[i].external_key = external_key
                     /\ \A j \in 1..(i - 1) : items[j].external_key # external_key
         IN  [items EXCEPT ![k].title = title, ![k].external_url = external_url]
    ELSE Append(items, [id |-> id, title |-> title, done |-> FALSE,
                        priority |-> priority, due |-> due, created_at |-> id,
                        external_url |-> external_url,
                        external_key |-> external_key])

(* The comparator of sort_todos (app.rs 299-321): a goes before b. *)
todo_before(a, b) ==
    LET
        PriorityLevel(p) == CASE p = "High" -> 1 [] p = "Medium" -> 2 [] p = "Low" -> 3
    IN
        IF a.done # b.done THEN ~a.done
        ELSE IF a.due # None /\ b.due # None /\ a.due # b.due
             THEN Unwrap(a.due) < Unwrap(b.due)
        ELSE IF a.due # None /\ b.due = None THEN TRUE
        ELSE IF a.due = None /\ b.due # None THEN FALSE
        ELSE IF a.priority # b.priority
             THEN PriorityLevel(a.priority) < PriorityLevel(b.priority)
        ELSE a.created_at < b.created_at

(* sort_todos: the todos in the order of the comparator. *)
sort_todos(items) ==
    CHOOSE s \in [1..Len(items) -> Range(items)] :
        /\ Range(s) = Range(items)
        /\ \A i, j \in 1..Len(s) : i < j => ~todo_before(s[j], s[i])

(* App::reload leaving the selection where it was. *)
reload_keeps_selected(a) ==
    LET todos == sort_todos(a.repo)
    IN  [a EXCEPT !.todos = todos]

(* App::reload (app.rs 61-67). *)
reload(a) ==
    LET todos == sort_todos(a.repo)
    IN  [a EXCEPT !.todos = todos,
                  !.selected = IF a.selected >= Len(todos) /\ todos # <<>>
                               THEN Len(todos) - 1 ELSE a.selected]

(* The for loop of poll_sync (app.rs 264-282) over the records in the      *)
(* order of the Vec: acc holds the repository, the next id and the counter *)
(* `added`.                                                                *)
RECURSIVE add_todos(_, _)
add_todos(acc, prs) ==
    IF prs = <<>> THEN acc
    ELSE LET pr == Head(prs)
             cl == classify_pr_task(pr)
             after == repo_add(acc.repo, acc.next_id, todo_title(pr), cl.priority,
                               cl.due, Some(pr.url), Some(external_key_of(pr)))
         IN  add_todos(
                IF should_add_todo(pr)
                THEN [repo    |-> after,
                      next_id |-> IF Len(after) > Len(acc.repo) THEN acc.next_id + 1
                                  ELSE acc.next_id,
                      added   |-> acc.added + 1]
                ELSE acc,
                Tail(prs))

(* The orders in which a Vec can hold the values of the map. *)
OrdersOf(S) == {s \in [1..Cardinality(S) -> S] : Range(s) = S}

(* main.rs 98-108: the configuration when a token is found. *)
GithubConfig == [days |-> 30, include_team_requests |-> FALSE]

(* App::new (app.rs 44-59) on a repository that is empty or holds the todo *)
(* of an earlier sync, with or without a GitHub configuration; no worker   *)
(* runs.                                                                   *)
SyncInit ==
    LET
        (* A todo an earlier sync left in the repository. *)
        EarlierTodo ==
            [id |-> 1, title |-> "koto/app#1 by octo: earlier title", done |-> FALSE,
             priority |-> "High", due |-> Some(0), created_at |-> 1,
             external_url |-> Some("https://github.com/koto/app/pull/1"),
             external_key |-> Some("github_pr:koto/app#1")]
    IN
        /\ cutoff_ts \in Cutoffs
        /\ include_team_requests = GithubConfig.include_team_requests
        /\ pc = "idle"
        /\ authored = <<>>
        /\ cursor = None
        /\ viewer_login = None
        /\ requested_nodes = <<>>
        /\ by_key = EmptyMap
        /\ resp = None
        /\ outcomes = <<>>
        /\ requests = <<>>
        /\ served = 0
        /\ inserted = <<>>
        /\ call = None
        /\ result = <<>>
        /\ \E items \in {<<>>, <<EarlierTodo>>}, github \in {None, Some(GithubConfig)} :
              app = Some([github     |-> github,
                          repo       |-> items,
                          todos      |-> sort_todos(items),
                          selected   |-> 0,
                          status     |-> IF github = None THEN None
                                         ELSE Some("Press 'g' to sync GitHub PRs"),
                          is_syncing |-> FALSE,
                          sync_rx    |-> None,
                          next_id    |-> Len(items) + 1,
                          syncs      |-> 0,
                          adds       |-> 0])

set_status(a, msg) == [a EXCEPT !.status = Some(msg)]

(* start_sync_github without the check of is_syncing. *)
start_sync_github_unchecked(limit) ==
    /\ app # None
    /\ LET a == Unwrap(app)
       IN  IF a.github = None
           THEN /\ app' = Some(set_status(a, "GitHub sync not configured"))
                /\ UNCHANGED <<pc, authored, cursor, viewer_login, requested_nodes,
                               by_key, resp, outcomes, requests, served>>
           ELSE /\ a.syncs < limit
                /\ app' = Some(set_status(
                              [a EXCEPT !.sync_rx = Some("rx"), !.is_syncing = TRUE,
                                        !.syncs = @ + 1],
                              "Syncing GitHub... (press g again to ignore)"))
                /\ pc' = "authored"
                /\ authored' = <<>>
                /\ cursor' = None
                /\ viewer_login' = None
                /\ requested_nodes' = <<>>
                /\ by_key' = EmptyMap
                /\ resp' = None
                /\ outcomes' = <<>>
                /\ requests' = <<>>
                /\ served' = 0
    /\ UNCHANGED <<cutoff_ts, include_team_requests, inserted, call, result>>

(* start_sync_github (app.rs 227-252).  The worker it spawns starts the    *)
(* call with variables of its own.  An App starts at most `limit` syncs.   *)
start_sync_github(limit) ==
    /\ app # None
    /\ LET a == Unwrap(app)
       IN  IF a.github = None
           THEN /\ app' = Some(set_status(a, "GitHub sync not configured"))
                /\ UNCHANGED <<pc, authored, cursor, viewer_login, requested_nodes,
                               by_key, resp, outcomes, requests, served>>
           ELSE IF a.is_syncing
           THEN /\ app' = Some(set_status(a, "Sync already in progress"))
                /\ UNCHANGED <<pc, authored, cursor, viewer_login, requested_nodes,
                               by_key, resp, outcomes, requests, served>>
           ELSE /\ a.syncs < limit
                /\ app' = Some(set_status(
                              [a EXCEPT !.sync_rx = Some("rx"), !.is_syncing = TRUE,
                                        !.syncs = @ + 1],
                              "Syncing GitHub... (press g again to ignore)"))
                /\ pc' = "authored"
                /\ authored' = <<>>
                /\ cursor' = None
                /\ viewer_login' = None
                /\ requested_nodes' = <<>>
                /\ by_key' = EmptyMap
                /\ resp' = None
                /\ outcomes' = <<>>
                /\ requests' = <<>>
                /\ served' = 0
    /\ UNCHANGED <<cutoff_ts, include_team_requests, inserted, call, result>>

StartSyncGithub == start_sync_github(MaxSyncs)

(* The worker thread ends without sending an outcome (a panic inside the   *)
(* call): the sender is dropped.                                           *)
WorkerGone ==
    /\ app # None
    /\ pc = "authored"
    /\ requests = <<>>
    /\ pc' = "gone"
    /\ UNCHANGED <<cutoff_ts, include_team_requests, authored, cursor, viewer_login,
                   requested_nodes, by_key, resp, outcomes, requests, served,
                   inserted, call, result, app>>

(* poll_sync taking an outcome (app.rs 257-289): Ok(prs) in the order      *)
(* `order`, or Err.                                                        *)
outcome_applied(a, outcome, order) ==
    LET idle == [a EXCEPT !.sync_rx = None, !.is_syncing = FALSE]
    IN  IF outcome.ok
        THEN LET acc == add_todos([repo |-> idle.repo, next_id |-> idle.next_id,
                                   added |-> 0], order)
             IN  set_status(
                    reload([idle EXCEPT !.repo = acc.repo, !.next_id = acc.next_id]),
                    "Synced GitHub: " \o ToString(acc.added) \o " tasks added")
        ELSE set_status(idle, "GitHub sync failed: " \o outcome.query \o ": "
                              \o outcome.cause)

(* poll_sync (app.rs 254-297): nothing without a channel or while the      *)
(* worker runs; the outcome when the worker has sent it; the closed        *)
(* channel when the worker is gone.                                        *)
PollSync ==
    /\ app # None
    /\ LET a == Unwrap(app)
       IN  IF a.sync_rx = None THEN UNCHANGED app
           ELSE IF pc = "done"
           THEN \E order \in OrdersOf(outcomes[1].prs) :
                    app' = Some(outcome_applied(a, outcomes[1], order))
           ELSE IF pc = "gone"
           THEN app' = Some(set_status(
                               [a EXCEPT !.sync_rx = None, !.is_syncing = FALSE],
                               "GitHub sync channel closed"))
           ELSE UNCHANGED app
    /\ UNCHANGED <<cutoff_ts, include_team_requests, pc, authored, cursor,
                   viewer_login, requested_nodes, by_key, resp, outcomes, requests,
                   served, inserted, call, result>>

SyncNext ==
    \/ StartSyncGithub
    \/ WorkerGone
    \/ AuthoredRequest
    \/ AuthoredResponse
    \/ SearchRequest
    \/ SearchResponse
    \/ MergeStage
    \/ PollSync

SpecSync == SyncInit /\ [][SyncNext]_vars

(***************************************************************************)
(* App: the operations on the todo list (app.rs 61-205) next to the sync.  *)
(* The worker's call is one step here: it returns one of the outcomes      *)
(* fetch_attention_prs can return.                                         *)
(***************************************************************************)

MaxAppSyncs == 2   \* syncs an App starts when the todo list is operated
MaxAdds     == 1   \* todos typed in by the user

(* TodoRepository::toggle flipping every todo. *)
repo_toggle_all(items, id) ==
    [i \in 1..Len(items) |-> [items[i] EXCEPT !.done = ~items[i].done]]

(* TodoRepository::toggle (memory.rs 66-74, sqlite.rs 109-119). *)
repo_toggle(items, id) ==
    [i \in 1..Len(items) |->
        IF items[i].id = id THEN [items[i] EXCEPT !.done = ~items[i].done]
        ELSE items[i]]

(* TodoRepository::delete (memory.rs 76-81, sqlite.rs 121-127). *)
repo_delete(items, id) == SelectSeq(items, LAMBDA t : t.id # id)

(* TodoRepository::clear_done (memory.rs 83-87, sqlite.rs 129-133): the    *)
(* todos left and the count returned.                                      *)
repo_clear_done(items) ==
    [items   |-> SelectSeq(items, LAMBDA t : ~t.done),
     removed |-> Len(items) - Len(SelectSeq(items, LAMBDA t : ~t.done))]

(* App::selected_id (app.rs 120-122); `selected` counts from 0. *)
selected_id(a) ==
    IF a.selected < Len(a.todos) THEN Some(a.todos[a.selected + 1].id) ELSE None

(* A method of App that touches neither the worker nor its call: `next`   *)
(* is the App it leaves.                                                   *)
AppStep(next) ==
    /\ app # None
    /\ app' = Some(next)
    /\ UNCHANGED <<cutoff_ts, include_team_requests, pc, authored, cursor,
                   viewer_login, requested_nodes, by_key, resp, outcomes, requests,
                   served, inserted, call, result>>

(* select_next (app.rs 69-73). *)
SelectNext ==
    LET a == Unwrap(app) IN AppStep(
        IF a.todos # <<>>
        THEN [a EXCEPT !.selected = Min2(a.selected + 1, Len(a.todos) - 1)]
        ELSE a)

(* select_previous (app.rs 75-79). *)
SelectPrevious ==
    LET a == Unwrap(app) IN AppStep(
        IF a.selected > 0 THEN [a EXCEPT !.selected = a.selected - 1] ELSE a)

(* toggle_selected (app.rs 124-130). *)
ToggleSelected ==
    LET a == Unwrap(app) IN AppStep(
        IF selected_id(a) = None THEN a
        ELSE set_status(
                reload([a EXCEPT !.repo = repo_toggle(a.repo, Unwrap(selected_id(a)))]),
                "Toggled completion"))

(* delete_selected (app.rs 132-141). *)
DeleteSelected ==
    LET a == Unwrap(app) IN AppStep(
        IF selected_id(a) = None THEN a
        ELSE set_status(
                reload([a EXCEPT
                          !.repo = repo_delete(a.repo, Unwrap(selected_id(a))),
                          !.selected = IF a.selected > 0 THEN a.selected - 1
                                       ELSE a.selected]),
                "Deleted"))

(* add_todo (app.rs 143-165). *)
AddTodo ==
    LET
        (* What parse_inline_meta makes of the trimmed input of add_todo: nothing  *)
        (* of an empty input, an error, or a title with priority and due date.     *)
        TypedInputs ==
            { [empty |-> TRUE],
              [empty |-> FALSE, error |-> Some("Title is empty")],
              [empty |-> FALSE, error |-> None, title |-> "write notes",
               priority |-> "Medium", due |-> None] }
    IN
        \E input \in TypedInputs :
            LET a == Unwrap(app) IN AppStep(
                IF input.empty THEN set_status(a, "Cannot add an empty task")
                ELSE IF input.error # None THEN set_status(a, Unwrap(input.error))
                ELSE IF a.adds >= MaxAdds THEN a
                ELSE LET r == reload([a EXCEPT
                                        !.repo = repo_add(a.repo, a.next_id, input.title,
                                                          input.priority, input.due,
                                                          None, None),
                                        !.next_id = a.next_id + 1,
                                        !.adds = a.adds + 1])
                     IN  set_status(
                            [r EXCEPT !.selected = IF r.todos # <<>>
                                                   THEN Len(r.todos) - 1
                                                   ELSE r.selected],
                            "Added"))

(* clear_done (app.rs 197-205). *)
ClearDone ==
    LET a == Unwrap(app) IN AppStep(
        LET cleared == repo_clear_done(a.repo)
        IN  set_status(
               reload([a EXCEPT !.repo = cleared.items]),
               IF cleared.removed > 0
               THEN "Cleared " \o ToString(cleared.removed) \o " completed"
               ELSE "No completed items"))

(* The key 'r' (ui/mod.rs 141-144): reload and its status. *)
Reload == LET a == Unwrap(app) IN AppStep(set_status(reload(a), "Reloaded"))

(* The outcomes of fetch_attention_prs (mod.rs 625-757): a failed request, *)
(* or the merge of the nodes the two streams kept.                         *)
SyncOutcomes ==
    LET own   == PullRequestNode(1, "from authored", StampAt, Some([login |-> "me"]),
                                 ReviewRequests(<<>>), Some("APPROVED"))
        asked == PullRequestNode(2, "from authored", StampNewer, None,
                                 ReviewRequests(<<Reviewer("User", Some("me"))>>), None)
        found == Unwrap(into_pull_request(
                    SearchNode(Some("PullRequest"), Some(1), Some(StampNewer),
                               Some([login |-> "octo"]),
                               ReviewRequests(<<Reviewer("User", Some("me"))>>),
                               None)))
    IN  { query_failed("authored", "transport") }
        \cup { values_of(merge_requested(merge_authored(EmptyMap, kept, "me"),
                                         pushed, "me")) :
                 kept \in {<<own>>, <<asked, own>>}, pushed \in {<<>>, <<found>>} }

(* The worker's call from its start to its return. *)
WorkerReturns ==
    /\ app # None
    /\ pc = "authored"
    /\ \E outcome \in SyncOutcomes : outcomes' = <<outcome>>
    /\ pc' = "done"
    /\ UNCHANGED <<cutoff_ts, include_team_requests, authored, cursor, viewer_login,
                   requested_nodes, by_key, resp, requests, served, inserted, call,
                   result, app>>

AppNext ==
    \/ start_sync_github(MaxAppSyncs)
    \/ WorkerReturns
    \/ WorkerGone
    \/ PollSync
    \/ SelectNext
    \/ SelectPrevious
    \/ AddTodo
    \/ ToggleSelected
    \/ DeleteSelected
    \/ ClearDone
    \/ Reload

SpecApp == SyncInit /\ [][AppNext]_vars

(***************************************************************************)
(* The sync against a server that is not bound to end a stream: whatever   *)
(* was asked before, a page may report a further page.  The log of         *)
(* requests is not kept, a run being of any length.                        *)
(***************************************************************************)

(* The responses to a request of `stream`: a failure, or a page of at most *)
(* one node, with any pageInfo.                                            *)
EndlessPages(stream) ==
    FailedResponses(stream)
        \cup {page \in AllAuthoredPages \cup AllSearchPages :
                 /\ page.stream = stream
                 /\ NodeCount(page.nodes) <= Min2(1, MaxNodes - served)
                 /\ stream = "authored" => page.login = "me"}

(* Lines 634-644 and 697-708: the query of the stream is sent and the call *)
(* awaits it.                                                              *)
EndlessRequest ==
    /\ pc \in {"authored", "search"}
    /\ \E r \in EndlessPages(pc) :
          /\ resp' = Some(r)
          /\ served' = served + (IF r.failed THEN 0 ELSE NodeCount(r.nodes))
    /\ pc' = pc \o "_await"
    /\ UNCHANGED <<cutoff_ts, include_team_requests, authored, cursor, viewer_login,
                   requested_nodes, by_key, outcomes, requests, inserted, call,
                   result, app>>

(* The steps of the worker thread. *)
EndlessWorker ==
    \/ EndlessRequest
    \/ AuthoredResponse
    \/ SearchResponse
    \/ MergeStage

EndlessNext ==
    \/ StartSyncGithub
    \/ EndlessWorker
    \/ PollSync

SpecEndless == SyncInit /\ [][EndlessNext]_vars

(* The worker thread runs, and the event loop calls poll_sync on every     *)
(* iteration (ui/mod.rs 31-33).                                            *)
FairSpecEndless == SpecEndless /\ WF_vars(EndlessWorker) /\ WF_vars(PollSync)

----------------------------------------------------------------------------
(* merge_into driven alone: any sequence of insertions into one map of the *)
(* records the merge stage builds (lines 742-754), in any order.           *)

MergeInit ==
    /\ cutoff_ts \in Cutoffs
    /\ include_team_requests = FALSE
    /\ pc = "merge_into"
    /\ authored = <<>>
    /\ cursor = None
    /\ viewer_login = Some("me")
    /\ requested_nodes = <<>>
    /\ by_key = EmptyMap
    /\ resp = None
    /\ outcomes = <<>>
    /\ requests = <<>>
    /\ served = 0
    /\ inserted = <<>>
    /\ call = None
    /\ result = <<>>
    /\ app = None

MergeInsert ==
    LET
        AuthoredPrs ==
            {[Unwrap(to_pr(n, is_review_requested_by_user(n, "me"), "me"))
                 EXCEPT !.is_viewer_author = TRUE] : n \in {m \in AuthoredNodes : Parses(m)}}
        RequestedPrs ==
            {Unwrap(to_pr(Unwrap(into_pull_request(n)), TRUE, "me")) :
                n \in {m \in SearchNodes : /\ into_pull_request(m) # None
                                           /\ Parses(Unwrap(into_pull_request(m)))}}
    IN
        /\ pc = "merge_into"
        /\ Len(inserted) < MaxMerges
        /\ \E pr \in AuthoredPrs \cup RequestedPrs :
              /\ by_key' = merge_into(by_key, pr)
              /\ inserted' = Append(inserted, pr)
        /\ UNCHANGED <<cutoff_ts, include_team_requests, pc, authored, cursor,
                       viewer_login, requested_nodes, resp, outcomes, requests, served,
                       call, result, app>>

MergeNext == MergeInsert

SpecMerge == MergeInit /\ [][MergeNext]_vars

(* C2: once the record stored under a key has is_viewer_author = true,     *)
(* every later record stored under that key has it too.                    *)
C2_AuthoredNeverDowngraded ==
    [][\A k \in DOMAIN by_key :
          by_key[k].is_viewer_author =>
            k \in DOMAIN by_key' /\ by_key'[k].is_viewer_author]_vars

(* authored = true, then authored = false for the same key: the record of  *)
(* the later insertion is stored with the flag set.                        *)
C2_Witness ==
    /\ pc = "merge_into"
    /\ \E i, j \in 1..Len(inserted) :
          /\ i < j /\ j = Len(inserted)
          /\ inserted[i].pr_key = inserted[j].pr_key
          /\ inserted[i].is_viewer_author
          /\ ~inserted[j].is_viewer_author
          /\ by_key[inserted[j].pr_key]
               = [inserted[j] EXCEPT !.is_viewer_author = TRUE]

----------------------------------------------------------------------------
(* Properties of fetch_attention_prs. *)

Returned == pc = "done" /\ Len(outcomes) = 1 /\ outcomes[1].ok

(* C1: every record of a returned collection has updated_at_unix >=        *)
(* cutoff_ts, whichever stream or page it came from.                       *)
C1_NoRecordBeforeCutoff ==
    \A i \in 1..Len(outcomes) :
        \A pr \in outcomes[i].prs : pr.updated_at_unix >= cutoff_ts

(* A run returned records although a page held a node older than the cutoff. *)
C1_Witness ==
    /\ Returned
    /\ outcomes[1].prs # {}
    /\ \E i \in 1..Len(requests) : requests[i].answer.older

(* C3: a returned collection holds at most one record per identity key. *)
C3_OneRecordPerKey ==
    \A i \in 1..Len(outcomes) :
        \A p, q \in outcomes[i].prs : p.pr_key = q.pr_key => p = q

(* The same pull request was kept from both streams. *)
C3_Witness ==
    /\ Returned
    /\ \E i \in 1..Len(authored), j \in 1..Len(requested_nodes) :
          /\ KeyOf(authored[i]) = KeyOf(requested_nodes[j])
          /\ Parses(requested_nodes[j])
          /\ Cardinality({p \in outcomes[1].prs : p.pr_key = KeyOf(authored[i])}) = 1

(* The last node of requested_nodes with the key that becomes a record. *)
LastRequested(key) ==
    LET idx == {j \in 1..Len(requested_nodes) :
                  KeyOf(requested_nodes[j]) = key /\ Parses(requested_nodes[j])}
    IN  requested_nodes[CHOOSE j \in idx : \A k \in idx : k <= j]

InBothStreams(key) ==
    /\ \E i \in 1..Len(authored) : KeyOf(authored[i]) = key /\ Parses(authored[i])
    /\ \E j \in 1..Len(requested_nodes) :
          KeyOf(requested_nodes[j]) = key /\ Parses(requested_nodes[j])

(* C4: a pull request kept from both streams (its updated-at parsed in     *)
(* both) is returned as exactly one record, with review_state Requested    *)
(* and is_viewer_author true, its other fields those of the node of the    *)
(* review-requested stream.                                                *)
C4_BothStreamsRecord ==
    Returned =>
      \A key \in {KeyOf(authored[i]) : i \in 1..Len(authored)} :
        InBothStreams(key) =>
          LET b    == LastRequested(key)
              recs == {p \in outcomes[1].prs : p.pr_key = key}
          IN  /\ Cardinality(recs) = 1
              /\ \A p \in recs :
                    /\ p.review_state = "Requested"
                    /\ p.is_viewer_author = TRUE
                    /\ p.title = b.title
                    /\ p.url = b.url
                    /\ p.number = b.number
                    /\ p.owner = b.repository.owner.login
                    /\ p.repo = b.repository.name
                    /\ p.author = (IF b.author = None THEN "unknown"
                                   ELSE Unwrap(b.author).login)
                    /\ Some(p.updated_at_unix)
                         = parse_github_datetime_to_unix(b.updated_at)

(* A pull request the viewer did not author as far as the search node says, *)
(* approved on the authored side, came back from both streams.             *)
C4_Witness ==
    /\ Returned
    /\ \E i \in 1..Len(authored) :
          /\ InBothStreams(KeyOf(authored[i]))
          /\ authored[i].review_decision = Some("APPROVED")
          /\ ~is_review_requested_by_user(authored[i], ViewerLogin)
          /\ LastRequested(KeyOf(authored[i])).author # Some([login |-> ViewerLogin])
          /\ LastRequested(KeyOf(authored[i])).updated_at # authored[i].updated_at


IsOlder(a) == ~a.failed /\ a.older

(* C5: after a page whose minimum parsed updated-at is before cutoff_ts,   *)
(* no further page of that stream is requested.                            *)
C5_NoRequestAfterOlderPage ==
    \A i, j \in 1..Len(requests) :
        i < j /\ requests[i].stream = requests[j].stream
            => ~IsOlder(requests[i].answer)

(* The authored loop was left after an older page that announced a further *)
(* page and carried a cursor.                                              *)
C5_Witness ==
    /\ pc = "search"
    /\ requests # <<>>
    /\ LET a == requests[Len(requests)].answer
       IN  /\ IsOlder(a)
           /\ a.page_info.has_next_page
           /\ a.page_info.end_cursor = Some("c1")

(* The nodes a response in flight makes the loop keep: the tail the step   *)
(* appends to the stream's list.                                           *)
Appended(before, after) == SubSeq(after, Len(before) + 1, Len(after))

AtOrAfterCutoff(node) ==
    LET u == parse_github_datetime_to_unix(node.updated_at)
    IN  u # None /\ Unwrap(u) >= cutoff_ts

(* The requested reviewers a node names. *)
ReviewersOf(node) ==
    IF node.review_requests = None THEN {}
    ELSE IF Unwrap(node.review_requests).nodes = None THEN {}
    ELSE {Unwrap(x.requested_reviewer) :
             x \in {y \in Range(Unwrap(Unwrap(node.review_requests).nodes)) :
                       y.requested_reviewer # None}}

PassesPolicy(node) ==
    \/ include_team_requests
    \/ [typename |-> Some("User"), login |-> Some(ViewerLogin)] \in ReviewersOf(node)

(* C6: on the page that triggers the early stop, every node at or after    *)
(* cutoff_ts is kept (in the search stream, every such node that passes    *)
(* the reviewer-request policy), wherever the older node sits.             *)
C6_StopPageKeepsFresh ==
    [][(resp # None /\ ~Unwrap(resp).failed /\ PageOlder(Unwrap(resp), cutoff_ts))
         => /\ pc = "authored_await" =>
                 SelectSeq(Appended(authored, authored'), AtOrAfterCutoff)
                    = SelectSeq(PagePrs(Unwrap(resp)), AtOrAfterCutoff)
            /\ pc = "search_await" =>
                 SelectSeq(Appended(requested_nodes, requested_nodes'),
                           LAMBDA n : AtOrAfterCutoff(n) /\ PassesPolicy(n))
                    = SelectSeq(PagePrs(Unwrap(resp)),
                                LAMBDA n : AtOrAfterCutoff(n) /\ PassesPolicy(n))]_vars

(* The only authored page held an older node and a node that was kept. *)
C6_Witness ==
    /\ pc = "search"
    /\ Len(requests) = 1
    /\ IsOlder(requests[1].answer)
    /\ authored # <<>>

StopsOnNoNext(a) == ~a.failed /\ ~a.page_info.has_next_page

StopsOnNullCursor(a) ==
    ~a.failed /\ a.page_info.has_next_page /\ a.page_info.end_cursor = None

StopsOnEmptyCursor(a) ==
    ~a.failed /\ a.page_info.has_next_page /\ a.page_info.end_cursor = Some("")

(* No request of the stream follows a page that shows `stops`, and once    *)
(* that page is handled the call has left the stream's loop.               *)
StreamStopsAfter(stops(_)) ==
    /\ \A i, j \in 1..Len(requests) :
          i < j /\ requests[i].stream = requests[j].stream
              => ~stops(requests[i].answer)
    /\ (requests # <<>> /\ resp = None /\ stops(requests[Len(requests)].answer))
          => pc \notin {requests[Len(requests)].stream,
                        requests[Len(requests)].stream \o "_await"}

(* C7 as stated: pagination stops after hasNextPage = false and after      *)
(* hasNextPage = true with a cursor that is null or empty.                 *)
C7_StopsOnNullOrEmptyCursor ==
    StreamStopsAfter(LAMBDA a : \/ StopsOnNoNext(a)
                                \/ StopsOnNullCursor(a)
                                \/ StopsOnEmptyCursor(a))

(* C7, amended: pagination stops after hasNextPage = false and after       *)
(* hasNextPage = true with a null cursor.                                  *)
C7_StopsOnNoNextOrNullCursor ==
    StreamStopsAfter(LAMBDA a : StopsOnNoNext(a) \/ StopsOnNullCursor(a))

(* The authored loop was left after a page that announced a further page   *)
(* without a cursor, none of its nodes being older than the cutoff.        *)
C7_Witness ==
    /\ pc = "search"
    /\ requests # <<>>
    /\ StopsOnNullCursor(requests[Len(requests)].answer)
    /\ ~IsOlder(requests[Len(requests)].answer)

(* C8: the run terminates with exactly one outcome, a success or a         *)
(* failure, and returns nothing after it.                                  *)
C8_TerminatesWithOneOutcome ==
    /\ <>(pc = "done")
    /\ [](Len(outcomes) <= 1)
    /\ [](pc = "done" <=> Len(outcomes) = 1)
    /\ [](\A i \in 1..Len(outcomes) : ~outcomes[i].ok => outcomes[i].prs = {})

(* A run of two pages per stream has returned successfully. *)
C8_Witness ==
    /\ Returned
    /\ Len(RequestsOf("authored")) = 2
    /\ Len(RequestsOf("search")) = 2

(* C9: a failed request ends the run in a failure without records; the     *)
(* request is not retried and no request follows it.                       *)
C9_FailureAbortsRun ==
    \A i \in 1..Len(requests) :
        requests[i].answer.failed =>
            /\ i = Len(requests)
            /\ resp = None =>
                  /\ pc = "done"
                  /\ Len(outcomes) = 1
                  /\ ~outcomes[1].ok
                  /\ outcomes[1].prs = {}
                  /\ outcomes[1].query =
                        (IF requests[i].stream = "authored" THEN "authored"
                         ELSE "review-requested")

(* The search request failed after the authored stream had kept nodes. *)
C9_Witness ==
    /\ pc = "done"
    /\ authored # <<>>
    /\ requests # <<>>
    /\ requests[Len(requests)].stream = "search"
    /\ requests[Len(requests)].answer.failed

StopsAuthored(a) ==
    ~a.failed /\ (a.older \/ ~a.page_info.has_next_page
                    \/ a.page_info.end_cursor = None)

(* C10: every authored request precedes every search request, and a search *)
(* request is sent only after an authored page that ends the pagination.   *)
C10_StreamsSequential ==
    /\ \A i, j \in 1..Len(requests) :
          i < j => ~(requests[i].stream = "search" /\ requests[j].stream = "authored")
    /\ \A j \in 1..Len(requests) :
          requests[j].stream = "search" =>
              /\ RequestsOf("authored") # <<>>
              /\ StopsAuthored(
                    RequestsOf("authored")[Len(RequestsOf("authored"))].answer)

(* Two authored pages were followed by a search request. *)
C10_Witness ==
    /\ Len(RequestsOf("authored")) = 2
    /\ Len(RequestsOf("search")) >= 1

----------------------------------------------------------------------------
(* The functions of the module applied on their own: one application per   *)
(* behaviour, its arguments drawn from the values below.                   *)

(* reviewRequests values a node may carry. *)
ReviewRequestValues ==
    { None,
      Some([nodes |-> None]),
      ReviewRequests(<<>>),
      ReviewRequests(<<[requested_reviewer |-> None]>>),
      ReviewRequests(<<Reviewer("Team", None)>>),
      ReviewRequests(<<Reviewer("Team", Some("me"))>>),
      ReviewRequests(<<Reviewer("User", Some("octo"))>>),
      ReviewRequests(<<Reviewer("User", Some("me"))>>),
      ReviewRequests(<<Reviewer("Team", None), Reviewer("User", Some("me"))>>) }

SearchScanCalls ==
    LET
        (* Nodes of a search page, for search_scan. *)
        ScanNodes ==
            { SearchNode(Some("PullRequest"), Some(1), Some(stamp), Some([login |-> "octo"]),
                         rr, None) :
                stamp \in {StampAt, StampOld, StampBad}, rr \in ReviewRequestValues }
            \cup { SearchNode(Some("Issue"), Some(1), Some(StampAt), None, None, None) }
    IN
        { [fn |-> "search_scan", nodes |-> nodes, cutoff |-> cutoff,
           include_team |-> include_team, login |-> login] :
            nodes \in SeqsUpTo(ScanNodes, MaxPageLen), cutoff \in Cutoffs,
            include_team \in BOOLEAN, login \in Logins }

AuthoredRecordCalls ==
    LET
        (* Authored nodes, for the record the merge stage builds of one. *)
        ReviewNodes ==
            { PullRequestNode(1, "from authored", stamp, author, rr, decision) :
                stamp \in {StampAt, StampBad},
                author \in {None, Some([login |-> "me"]), Some([login |-> "octo"])},
                rr \in ReviewRequestValues,
                decision \in {None, Some("APPROVED"), Some("CHANGES_REQUESTED"),
                              Some("REVIEW_REQUIRED")} }
    IN
        { [fn |-> "authored_record", node |-> node, login |-> login] :
            node \in ReviewNodes, login \in Logins }

CiChecks ==
    LET
        CiCheckStates == {"Success", "Failure", "Running", "Neutral", "None"}
    IN
        { [name |-> name, state |-> state, url |-> None, started_at_unix |-> None] :
            name \in {"build", "lint"}, state \in CiCheckStates }

(* statusCheckRollup.state values. *)
Rollups ==
    { None, Some("SUCCESS"), Some("FAILURE"), Some("PENDING"), Some("IN_PROGRESS"),
      Some("ERROR") }

DeriveCiStateCalls ==
    { [fn |-> "derive_ci_state", rollup |-> rollup, checks |-> checks] :
        rollup \in Rollups, checks \in SeqsUpTo(CiChecks, MaxChecks) }

IsClearCalls ==
    LET
        (* MergeBlockers values. *)
        MergeBlockersValues ==
            { [has_conflicts |-> has_conflicts, required_approvals |-> required_approvals,
               current_approvals |-> current_approvals, required_checks |-> <<"build">>,
               failing_required_checks |-> failing, is_behind_base |-> is_behind_base] :
                has_conflicts \in BOOLEAN, is_behind_base \in BOOLEAN,
                required_approvals \in {None, Some(0), Some(1), Some(2)},
                current_approvals \in 0..2, failing \in {<<>>, <<"build">>} }
    IN
        { [fn |-> "is_clear", blockers |-> blockers] : blockers \in MergeBlockersValues }

CheckRun(name, conclusion) ==
    [typename |-> Some("CheckRun"), name |-> name, conclusion |-> conclusion,
     details_url |-> None, started_at |-> Some(StampAt), context |-> None,
     state |-> None, target_url |-> None]

StatusContext(context, state) ==
    [typename |-> Some("StatusContext"), name |-> None, conclusion |-> None,
     details_url |-> None, started_at |-> None, context |-> context,
     state |-> state, target_url |-> None]

(* commits with one commit whose roll-up carries `state` and `contexts`. *)
Commits(state, contexts) ==
    Some([nodes |-> Some(<<[commit |-> Some([status_check_rollup |->
            Some([state |-> state, contexts |-> Some([nodes |-> Some(contexts)])])])]>>)])

BaseRefs ==
    { None, Some([branch_protection_rule |-> None]) }
    \cup { Some([branch_protection_rule |->
                Some([required_approving_review_count |-> count,
                      required_status_check_contexts |-> contexts])]) :
             count \in {None, Some(2)},
             contexts \in {None, Some(<<>>), Some(<<"build">>), Some(<<"build", "lint">>)} }

ToPrCalls ==
    LET
        (* Nodes that differ in what the merge blockers are computed from. *)
        BlockerNodes ==
            { [PullRequestNode(1, "blockers", stamp, Some([login |-> "octo"]), None, None)
                  EXCEPT !.mergeable = mergeable, !.merge_state_status = merge_state_status,
                         !.base_ref = base_ref, !.reviews = reviews, !.commits = commits] :
                stamp \in {StampAt},
                mergeable \in {None, Some("MERGEABLE"), Some("CONFLICTING"), Some("Conflicting")},
                merge_state_status \in {None, Some("CLEAN"), Some("BEHIND"), Some("behind")},
                base_ref \in BaseRefs,
                reviews \in {None, Some([total_count |-> None]), Some([total_count |-> Some(1)]),
                             Some([total_count |-> Some(2)])},
                commits \in {None,
                             Commits(Some("SUCCESS"), <<CheckRun(Some("build"), Some("SUCCESS"))>>),
                             Commits(Some("PENDING"), <<CheckRun(Some("build"), Some("SUCCESS")),
                                                        StatusContext(Some("lint"), Some("PENDING"))>>),
                             Commits(Some("SUCCESS"), <<CheckRun(Some("build"), Some("SUCCESS")),
                                                        StatusContext(Some("lint"), Some("SUCCESS"))>>)} }
            \cup { PullRequestNode(1, "blockers", StampBad, Some([login |-> "octo"]), None, None) }
    IN
        { [fn |-> "to_pr", node |-> node, is_requested |-> is_requested, login |-> login] :
            node \in BlockerNodes, is_requested \in BOOLEAN, login \in Logins }

ComputeMergeBlockersCalls ==
    { [fn |-> "compute_merge_blockers",
       node |-> [PullRequestNode(1, "blockers", StampAt, None, None, None)
                    EXCEPT !.base_ref = base_ref],
       ci_checks |-> ci_checks] :
        base_ref \in BaseRefs, ci_checks \in SeqsUpTo(CiChecks, MaxChecks) }

MapCiChecksCalls ==
    LET
        (* Contexts of a statusCheckRollup. *)
        ContextNodes ==
            { CheckRun(Some("build"), conclusion) :
                conclusion \in {None, Some("SUCCESS"), Some("FAILURE"), Some("CANCELLED"),
                                Some("NEUTRAL"), Some("SKIPPED"), Some("TIMED_OUT")} }
            \cup { CheckRun(None, Some("SUCCESS")) }
            \cup { StatusContext(Some("lint"), state) :
                     state \in {None, Some("SUCCESS"), Some("FAILURE"), Some("PENDING"),
                                Some("ERROR")} }
            \cup { StatusContext(None, Some("SUCCESS")) }
            \cup { [CheckRun(Some("build"), Some("SUCCESS")) EXCEPT !.typename = Some("Bot")],
                   [StatusContext(Some("lint"), Some("SUCCESS")) EXCEPT !.typename = None] }
    IN
        { [fn |-> "map_ci_checks", contexts |-> contexts,
           node |-> [PullRequestNode(1, "checks", StampAt, None, None, None)
                        EXCEPT !.commits = Commits(None, contexts)]] :
            contexts \in SeqsUpTo(ContextNodes, MaxChecks) }
        \cup { [fn |-> "map_ci_checks", contexts |-> <<>>,
                node |-> [PullRequestNode(1, "checks", StampAt, None, None, None)
                             EXCEPT !.commits = commits]] :
                 commits \in {None, Some([nodes |-> None]), Some([nodes |-> Some(<<>>)]),
                              Some([nodes |-> Some(<<[commit |-> None]>>)]),
                              Some([nodes |-> Some(<<[commit |->
                                        Some([status_check_rollup |-> None])]>>)]),
                              Some([nodes |-> Some(<<[commit |->
                                        Some([status_check_rollup |->
                                            Some([state |-> None, contexts |-> None])])]>>)])} }

InsertAt(cs, i, ins) == SubSeq(cs, 1, i - 1) \o ins \o SubSeq(cs, i, Len(cs))

Fractions ==
    { <<>>,
      <<"0">>,
      <<"5">>,
      <<"1", "2", "3">>,
      <<"7", "5", "0">>,
      <<"9", "9", "9">>,
      <<"9", "9", "9", "9", "9", "9", "9", "9", "9">>,
      <<"1", ".", "2">>,
      <<"9", "Z", "9">>,
      <<"+", "0", "2", ":", "0", "0">>,
      <<"9", " ">> }

(* The texts parse_github_datetime_to_unix is applied to: the DateTime     *)
(* texts of the model and "2024-03-15T10:30:00Z" with one character        *)
(* replaced, dropped or inserted, one two-character field replaced, or     *)
(* the "Z" replaced by another ending.  The year stays 2024, so that the   *)
(* second count stays within TLC's integers.                               *)
(* `plain` are texts without a fraction, for the comparison with the same  *)
(* text with a fraction before its "Z".                                    *)
ParseInputs ==
    LET BaseText == Chars(StampAt)
        ReplaceAt(cs, i, c) == [cs EXCEPT ![i] = c]
        DropAt(cs, i) == SubSeq(cs, 1, i - 1) \o SubSeq(cs, i + 1, Len(cs))
        WithField(cs, p, field) ==
            SubSeq(cs, 1, p - 1) \o field \o SubSeq(cs, p + 2, Len(cs))
        FieldStarts == {6, 9, 12, 15, 18}
        FieldTexts ==
            { <<"0", "0">>,
              <<"0", "1">>,
              <<"1", "2">>,
              <<"1", "3">>,
              <<"3", "1">>,
              <<"3", "2">>,
              <<"5", "9">>,
              <<"6", "0">>,
              <<"9", "9">>,
              <<"+", "3">>,
              <<"-", "3">>,
              <<"3", " ">>,
              <<" ", "3">>,
              <<"x", "1">>,
              <<"1", "x">>,
              <<"+", "+">> }
        Endings ==
            { <<"+", "0", "2", ":", "0", "0">>,
              <<"-", "0", "5", ":", "0", "0">>,
              <<"Z", "+", "0", "2", ":", "0", "0">>,
              <<"+", "0", "2", ":", "0", "0", "Z">>,
              <<".", "1", "2", "3", "+", "0", "2", ":", "0", "0">>,
              <<>>,
              <<"z">>,
              <<"Z", "Z">>,
              <<" ", "Z">>,
              <<"Z", " ", "\n">>,
              <<"+", "0", "0", ":", "0", "0">> }
    IN  [texts |->
            { Chars(str) : str \in Stamps }
                \cup { ReplaceAt(BaseText, i, c) :
                         i \in 4..20,
                         c \in {"-", "T", ":", "Z", "z", ".", "+", " ", "x", "0", "9"} }
                \cup { ReplaceAt(BaseText, i, c) :
                         i \in 1..3, c \in {"x", " ", ".", "Z", ":"} }
                \cup { DropAt(BaseText, i) : i \in 1..20 }
                \cup { InsertAt(BaseText, i, <<c>>) :
                         i \in 1..21, c \in {" ", "\n", ".", "0", "Z", "-"} }
                \cup { WithField(BaseText, p, field) :
                         p \in FieldStarts, field \in FieldTexts }
                \cup { SubSeq(BaseText, 1, 19) \o ending : ending \in Endings }
                \cup { InsertAt(BaseText, 20, <<".">> \o f) : f \in Fractions },
         plain |->
            { Chars(StampAt), Chars(StampOld),
              InsertAt(BaseText, 1, <<" ">>), InsertAt(BaseText, 21, <<"\n">>),
              ReplaceAt(BaseText, 20, "z"), DropAt(BaseText, 19) }
                \cup { WithField(BaseText, p, field) :
                         p \in FieldStarts,
                         field \in {<<"0", "0">>, <<"1", "3">>, <<"5", "9">>, <<"9", "9">>,
                                    <<"+", "3">>, <<"x", "1">>} }]

(* `text` with "." and the fraction put before its last "Z". *)
WithFraction(text, fraction) ==
    LET idx == {i \in 1..Len(text) : text[i] = "Z"}
        k   == CHOOSE i \in idx : \A j \in idx : j <= i
    IN  InsertAt(text, k, <<".">> \o fraction)

ParseCalls ==
    { [fn |-> "parse_github_datetime_to_unix", text |-> text] :
        text \in ParseInputs.texts }

FractionCalls ==
    { [fn |-> "parse_github_datetime_to_unix", text |-> text, fraction |-> f] :
        text \in ParseInputs.plain, f \in Fractions }

(* Whole authored streams: the last page alone reports hasNextPage =      *)
(* false; any page may come without a cursor, without a node list, with    *)
(* nodes in any order and with a timestamp that does not parse.            *)
AuthoredStreamCalls ==
    LET NodeLists == {None} \cup
                     { Some(nodes) : nodes \in UNION { [1..k -> AuthoredNodes] : k \in 0..MaxPageLen } }
        PagesAt(last) ==
            { [nodes |-> nodes,
               page_info |-> [has_next_page |-> ~last, end_cursor |-> c]] :
                nodes \in NodeLists, c \in {None, Some("c1")} }
    IN  { [fn |-> "authored_stream", pages |-> <<page>>, cutoff |-> c] :
            page \in PagesAt(TRUE), c \in Cutoffs }
        \cup
        { [fn |-> "authored_stream", pages |-> <<first, page>>, cutoff |-> c] :
            first \in PagesAt(FALSE), page \in PagesAt(TRUE), c \in Cutoffs }

DeriveCalls ==
    LET
        (* cutoff_ts of a run: now_unix() - days * 86400 (app.rs 242), which is    *)
        (* -2592000 when the clock is not after the epoch (now_unix() is then 0).  *)
        SearchQueryCalls ==
            { [fn |-> "search_query", cutoff |-> c] :
                c \in {-2592000, -1, 0, 86399, 86400, 951782400, 1710498600, 1710547199,
                       1710547200} }
        DaysFromCivilCalls ==
            LET
                (* Years, months and days handed to days_from_civil. *)
                Years == {-400, -1, 0, 1, 1600, 1900, 1969, 1970, 1972, 2000, 2023, 2024, 2100}
            IN
                { [fn |-> "days_from_civil", year |-> year, month |-> month, day |-> day] :
                    year \in Years, month \in 0..13, day \in 0..32 }
        CivilFromDaysCalls ==
            { [fn |-> "civil_from_days", days |-> days] :
                days \in (-800..800) \cup {-719468, -146097, 10957, 11016, 19797, 19798} }
        UnixToYmdCalls ==
            { [fn |-> "unix_to_ymd", ts |-> ts] :
                ts \in (-3..3) \cup {-86401, -86400, -86399, 86399, 86400, 86401,
                                     951782400, 1710498600, 1710547199, 1710547200} }
    IN
        SearchQueryCalls \cup ParseCalls \cup FractionCalls \cup
        DaysFromCivilCalls \cup CivilFromDaysCalls \cup UnixToYmdCalls \cup
        SearchScanCalls \cup AuthoredRecordCalls \cup DeriveCiStateCalls
            \cup IsClearCalls \cup ToPrCalls \cup ComputeMergeBlockersCalls
            \cup MapCiChecksCalls \cup AuthoredStreamCalls

DeriveInit ==
    /\ cutoff_ts \in Cutoffs
    /\ include_team_requests = FALSE
    /\ pc = "derive"
    /\ authored = <<>>
    /\ cursor = None
    /\ viewer_login = None
    /\ requested_nodes = <<>>
    /\ by_key = EmptyMap
    /\ resp = None
    /\ outcomes = <<>>
    /\ requests = <<>>
    /\ served = 0
    /\ inserted = <<>>
    /\ call \in DeriveCalls
    /\ result = <<>>
    /\ app = None

(* The step every application shares: `value` is what the function returns. *)
Returns(fn, value) ==
    /\ pc = "derive"
    /\ call.fn = fn
    /\ result = <<>>
    /\ result' = <<value>>
    /\ UNCHANGED <<cutoff_ts, include_team_requests, pc, authored, cursor,
                   viewer_login, requested_nodes, by_key, resp, outcomes,
                   requests, served, inserted, call, app>>

(* Lines 712-725 on one page. *)
SearchScanCall ==
    /\ call.fn = "search_scan"
    /\ Returns("search_scan",
               search_scan(call.nodes, <<>>, None, call.cutoff,
                           call.include_team, call.login))

(* Lines 633-675 against one stream. *)
AuthoredStreamCall ==
    /\ call.fn = "authored_stream"
    /\ Returns("authored_stream", authored_stream(call.pages, <<>>, call.cutoff))

(* Lines 743-746 on one node. *)
AuthoredRecordCall ==
    /\ call.fn = "authored_record"
    /\ Returns("authored_record", authored_record(call.node, call.login))

DeriveCiStateCall ==
    /\ call.fn = "derive_ci_state"
    /\ Returns("derive_ci_state", derive_ci_state(call.rollup, call.checks))

IsClearCall ==
    /\ call.fn = "is_clear"
    /\ Returns("is_clear", is_clear(call.blockers))

ToPrCall ==
    /\ call.fn = "to_pr"
    /\ Returns("to_pr", to_pr(call.node, call.is_requested, call.login))

ComputeMergeBlockersCall ==
    /\ call.fn = "compute_merge_blockers"
    /\ Returns("compute_merge_blockers",
               compute_merge_blockers(call.node, call.ci_checks))

MapCiChecksCall ==
    /\ call.fn = "map_ci_checks"
    /\ Returns("map_ci_checks", map_ci_checks(call.node))

DaysFromCivilCall ==
    /\ call.fn = "days_from_civil"
    /\ Returns("days_from_civil", days_from_civil(call.year, call.month, call.day))

(* civil_from_days, on its own argument or on the day count that           *)
(* days_from_civil has just returned.                                      *)
CivilFromDaysCall ==
    /\ pc = "derive"
    /\ \/ /\ call.fn = "civil_from_days"
          /\ result = <<>>
          /\ result' = <<civil_from_days(call.days)>>
       \/ /\ call.fn = "days_from_civil"
          /\ Len(result) = 1
          /\ result[1] # None
          /\ result' = Append(result, civil_from_days(Unwrap(result[1])))
    /\ UNCHANGED <<cutoff_ts, include_team_requests, pc, authored, cursor,
                   viewer_login, requested_nodes, by_key, resp, outcomes,
                   requests, served, inserted, call, app>>

UnixToYmdCall ==
    /\ call.fn = "unix_to_ymd"
    /\ Returns("unix_to_ymd", unix_to_ymd(call.ts))

(* parse_github_datetime_to_unix on a text, and then on the same text     *)
(* with a fraction when the call has one and the text has a "Z".           *)
ParseCall ==
    /\ pc = "derive"
    /\ call.fn = "parse_github_datetime_to_unix"
    /\ \/ /\ result = <<>>
          /\ result' = <<parse_datetime(call.text)>>
       \/ /\ Len(result) = 1
          /\ "fraction" \in DOMAIN call
          /\ \E i \in 1..Len(call.text) : call.text[i] = "Z"
          /\ result' = Append(result,
                              parse_datetime(WithFraction(call.text, call.fraction)))
    /\ UNCHANGED <<cutoff_ts, include_team_requests, pc, authored, cursor,
                   viewer_login, requested_nodes, by_key, resp, outcomes,
                   requests, served, inserted, call, app>>

(* Lines 679-685: the search string every request of the run clones. *)
SearchQueryCall ==
    /\ call.fn = "search_query"
    /\ Returns("search_query", search_query_of(call.cutoff))

DeriveNext ==
    \/ SearchQueryCall
    \/ ParseCall
    \/ DaysFromCivilCall
    \/ UnixToYmdCall
    \/ CivilFromDaysCall
    \/ SearchScanCall
    \/ AuthoredRecordCall
    \/ DeriveCiStateCall
    \/ IsClearCall
    \/ ToPrCall
    \/ ComputeMergeBlockersCall
    \/ MapCiChecksCall
    \/ AuthoredStreamCall

SpecDerive == DeriveInit /\ [][DeriveNext]_vars

Applied(fn) == pc = "derive" /\ call.fn = fn /\ result # <<>>

FreshAt(node, cutoff) ==
    LET u == parse_github_datetime_to_unix(node.updated_at)
    IN  u # None /\ Unwrap(u) >= cutoff

NamesUser(node, login) ==
    [typename |-> Some("User"), login |-> Some(login)] \in ReviewersOf(node)

(* C11: a node of the review-requested stream with updated-at at or after  *)
(* the cutoff is accepted exactly when include_team_requests is true or    *)
(* the node names the viewer among its requested reviewers of kind User.   *)
C11_AcceptedIffPolicy ==
    Applied("search_scan") =>
        \A i \in 1..Len(call.nodes) :
            LET opt == into_pull_request(call.nodes[i])
            IN  (opt # None /\ FreshAt(Unwrap(opt), call.cutoff)) =>
                    (Unwrap(opt) \in Range(result[1].pushed)
                        <=> (call.include_team \/ NamesUser(Unwrap(opt), call.login)))

(* Without team requests, a page with a fresh node asked of a team named   *)
(* like the viewer and a fresh node asked of the viewer: only the second   *)
(* is accepted.                                                            *)
C11_Witness ==
    /\ Applied("search_scan")
    /\ ~call.include_team
    /\ Len(call.nodes) = 2
    /\ call.nodes[1].updated_at = Some(StampAt)
    /\ call.nodes[1].review_requests = ReviewRequests(<<Reviewer("Team", Some("me"))>>)
    /\ call.nodes[2].updated_at = Some(StampAt)
    /\ call.nodes[2].review_requests = ReviewRequests(<<Reviewer("User", Some("me"))>>)
    /\ result[1].pushed = <<Unwrap(into_pull_request(call.nodes[2]))>>

(* C12: the record of an authored node has review state Requested when a   *)
(* requested reviewer of kind User carries the viewer's login, whatever    *)
(* reviewDecision says; otherwise Approved exactly when reviewDecision is  *)
(* "APPROVED", and None in every other case.                               *)
C12_ReviewStateDerivation ==
    (Applied("authored_record") /\ result[1] # None) =>
        Unwrap(result[1]).review_state =
            (IF NamesUser(call.node, call.login) THEN "Requested"
             ELSE IF call.node.review_decision = Some("APPROVED") THEN "Approved"
             ELSE "None")

(* An approved pull request that asks the viewer for a review. *)
C12_Witness ==
    /\ Applied("authored_record")
    /\ call.node.review_decision = Some("APPROVED")
    /\ NamesUser(call.node, call.login)
    /\ result[1] # None
    /\ Unwrap(result[1]).review_state = "Requested"

StatesIn(checks) == {checks[i].state : i \in 1..Len(checks)}

(* C13: over the per-check list, in any order, a Running check gives       *)
(* Running; otherwise a Failure check gives Failure; otherwise a Success   *)
(* check gives Success.                                                    *)
C13_CiPrecedence ==
    Applied("derive_ci_state") =>
        LET states == StatesIn(call.checks)
        IN  /\ "Running" \in states => result[1] = "Running"
            /\ ("Running" \notin states /\ "Failure" \in states) => result[1] = "Failure"
            /\ (states \cap {"Running", "Failure"} = {} /\ "Success" \in states)
                  => result[1] = "Success"

(* A successful check followed by a running one. *)
C13_Witness ==
    /\ Applied("derive_ci_state")
    /\ Len(call.checks) = 2
    /\ call.checks[1].state = "Success"
    /\ call.checks[2].state = "Running"
    /\ result[1] = "Running"

(* C14 as stated: for a check list that is not empty, the result is the    *)
(* same whatever the roll-up string.                                       *)
C14_RollupOnlyWhenEmpty ==
    (Applied("derive_ci_state") /\ call.checks # <<>>) =>
        \A rollup \in Rollups : derive_ci_state(rollup, call.checks) = result[1]

Decided(checks) == StatesIn(checks) \cap {"Running", "Failure", "Success"} # {}

(* C14, amended: for a check list with a Running, Failure or Success check *)
(* the result is the same whatever the roll-up string; for any other list  *)
(* (empty, or all Neutral or None) it is what the roll-up string says.     *)
C14_RollupOnlyWhenUndecided ==
    Applied("derive_ci_state") =>
        /\ Decided(call.checks) =>
              \A rollup \in Rollups : derive_ci_state(rollup, call.checks) = result[1]
        /\ ~Decided(call.checks) =>
              result[1] = (CASE call.rollup = Some("SUCCESS") -> "Success"
                             [] call.rollup = Some("FAILURE") -> "Failure"
                             [] call.rollup \in {Some("PENDING"), Some("IN_PROGRESS")}
                                  -> "Running"
                             [] OTHER -> "None")

(* A list of one neutral check and a roll-up of SUCCESS. *)
C14_Witness ==
    /\ Applied("derive_ci_state")
    /\ Len(call.checks) = 1
    /\ call.checks[1].state = "Neutral"
    /\ call.rollup = Some("SUCCESS")
    /\ result[1] = "Success"

(* What the data model calls clear. *)
NothingBlocks(blockers) ==
    /\ blockers.has_conflicts = FALSE
    /\ blockers.is_behind_base = FALSE
    /\ Len(blockers.failing_required_checks) = 0
    /\ \/ blockers.required_approvals = None
       \/ blockers.current_approvals >= blockers.required_approvals[1]

(* C15: is_clear() is true exactly when there are no conflicts, the branch *)
(* is not behind its base, no required check is failing, and the approvals *)
(* required are absent or reached.                                         *)
C15_IsClearIff ==
    Applied("is_clear") => (result[1] <=> NothingBlocks(call.blockers))

(* Two approvals required, one given, nothing else in the way: not clear. *)
C15_Witness ==
    /\ Applied("is_clear")
    /\ ~call.blockers.has_conflicts
    /\ ~call.blockers.is_behind_base
    /\ call.blockers.failing_required_checks = <<>>
    /\ call.blockers.required_approvals = Some(2)
    /\ call.blockers.current_approvals = 1
    /\ result[1] = FALSE

(* C16: a record of to_pr carries merge blockers exactly when the blockers *)
(* computed for its node are not clear: blockers that are present never    *)
(* satisfy is_clear(), and clear blockers are absent.                      *)
C16_BlockersOnlyWhenNotClear ==
    (Applied("to_pr") /\ result[1] # None) =>
        LET pr       == Unwrap(result[1])
            computed == compute_merge_blockers(call.node, pr.ci_checks)
        IN  /\ pr.merge_blockers # None =>
                  /\ ~NothingBlocks(Unwrap(pr.merge_blockers))
                  /\ Unwrap(pr.merge_blockers) = computed
            /\ NothingBlocks(computed) => pr.merge_blockers = None

(* A mergeable, up to date pull request with its two approvals and its     *)
(* required checks green: the record has no blockers.                      *)
C16_Witness ==
    /\ Applied("to_pr")
    /\ result[1] # None
    /\ call.node.mergeable = Some("MERGEABLE")
    /\ call.node.merge_state_status = Some("CLEAN")
    /\ branch_protection_of(call.node) =
          [approvals |-> Some(2), checks |-> <<"build", "lint">>]
    /\ call.node.reviews = Some([total_count |-> Some(2)])
    /\ Unwrap(result[1]).merge_blockers = None

(* The names of the checks with state Success. *)
GreenNames(ci_checks) ==
    {c.name : c \in {d \in Range(ci_checks) : d.state = "Success"}}

(* C17: failing_required_checks holds exactly the required check names     *)
(* that are not the name of a check with state Success, and only required  *)
(* check names.                                                            *)
C17_FailingRequiredChecks ==
    Applied("compute_merge_blockers") =>
        LET blockers == result[1]
        IN  /\ Range(blockers.failing_required_checks) \subseteq Range(blockers.required_checks)
            /\ \A name \in Range(blockers.required_checks) :
                  name \in Range(blockers.failing_required_checks)
                      <=> name \notin GreenNames(call.ci_checks)
            /\ blockers.failing_required_checks =
                  SelectSeq(blockers.required_checks,
                            LAMBDA name : name \in Range(blockers.failing_required_checks))

(* "build" is running and "lint" has no check: both are failing. *)
C17_Witness ==
    /\ Applied("compute_merge_blockers")
    /\ Len(call.ci_checks) = 1
    /\ call.ci_checks[1].name = "build"
    /\ call.ci_checks[1].state = "Running"
    /\ result[1].required_checks = <<"build", "lint">>
    /\ result[1].failing_required_checks = <<"build", "lint">>

(* The check state the mapping gives a context. *)
MappedState(ctx) ==
    CASE ctx.typename = Some("CheckRun") /\ ctx.conclusion = Some("SUCCESS") -> "Success"
      [] ctx.typename = Some("CheckRun")
           /\ ctx.conclusion \in {Some("FAILURE"), Some("CANCELLED")} -> "Failure"
      [] ctx.typename = Some("CheckRun")
           /\ ctx.conclusion \in {Some("NEUTRAL"), Some("SKIPPED")} -> "Neutral"
      [] ctx.typename = Some("CheckRun")
           /\ ctx.conclusion \notin {Some("SUCCESS"), Some("FAILURE"), Some("CANCELLED"),
                                     Some("NEUTRAL"), Some("SKIPPED")} -> "Running"
      [] ctx.typename = Some("StatusContext") /\ ctx.state = Some("SUCCESS") -> "Success"
      [] ctx.typename = Some("StatusContext") /\ ctx.state = Some("FAILURE") -> "Failure"
      [] ctx.typename = Some("StatusContext") /\ ctx.state = Some("PENDING") -> "Running"
      [] ctx.typename = Some("StatusContext")
           /\ ctx.state \notin {Some("SUCCESS"), Some("FAILURE"), Some("PENDING")} -> "None"

(* C18: every CheckRun and StatusContext context gives one check, in       *)
(* order, with the state its conclusion or state string maps to; a context *)
(* of any other kind gives no check.                                       *)
C18_CiCheckMapping ==
    Applied("map_ci_checks") =>
        LET mapped == SelectSeq(call.contexts,
                                LAMBDA ctx : ctx.typename \in {Some("CheckRun"),
                                                               Some("StatusContext")})
        IN  /\ Len(result[1]) = Len(mapped)
            /\ \A i \in 1..Len(mapped) : result[1][i].state = MappedState(mapped[i])

(* A cancelled check run and a context of another kind: one failed check. *)
C18_Witness ==
    /\ Applied("map_ci_checks")
    /\ Len(call.contexts) = 2
    /\ call.contexts[1].typename = Some("CheckRun")
    /\ call.contexts[1].conclusion = Some("CANCELLED")
    /\ call.contexts[2].typename = Some("Bot")
    /\ Len(result[1]) = 1
    /\ result[1][1].state = "Failure"

(* A date went to a day count and back. *)
RoundTrip == pc = "derive" /\ call.fn = "days_from_civil" /\ Len(result) = 2

(* C19 as stated: for every year, month in 1..12 and day in 1..31, the     *)
(* date converted to a day count and back is the same date.                *)
C19_RoundTripAnyDay ==
    (RoundTrip /\ call.month \in 1..12 /\ call.day \in 1..31) =>
        result[2] = Some(<<call.year, call.month, call.day>>)

IsLeap(year) == year % 4 = 0 /\ (year % 100 # 0 \/ year % 400 = 0)

DaysInMonth(year, month) ==
    IF month = 2 THEN (IF IsLeap(year) THEN 29 ELSE 28)
    ELSE IF month \in {4, 6, 9, 11} THEN 30
    ELSE 31

(* C19, amended: for every year, month in 1..12 and day from 1 to the      *)
(* length of that month, the date converted to a day count and back is the *)
(* same date.                                                              *)
C19_RoundTripCalendarDates ==
    (RoundTrip /\ call.month \in 1..12
               /\ call.day \in 1..DaysInMonth(call.year, call.month)) =>
        result[2] = Some(<<call.year, call.month, call.day>>)

(* A date of the year before year 0 went to a day count and back. *)
C19_Witness ==
    /\ RoundTrip
    /\ call.year = -1 /\ call.month = 2 /\ call.day = 28
    /\ result[2] = Some(<<-1, 2, 28>>)

(* C20: days_from_civil(1970, 1, 1) is 0 and civil_from_days(0) is         *)
(* (1970, 1, 1).                                                           *)
C20_EpochAnchor ==
    /\ (Applied("days_from_civil")
          /\ <<call.year, call.month, call.day>> = <<1970, 1, 1>>)
            => result[1] = Some(0)
    /\ (Applied("civil_from_days") /\ call.days = 0)
            => result[1] = Some(<<1970, 1, 1>>)
    /\ (RoundTrip /\ result[1] = Some(0)) => result[2] = Some(<<1970, 1, 1>>)

(* 1970-01-01 gave day 0, and day 0 gave 1970-01-01. *)
C20_Witness ==
    /\ RoundTrip
    /\ <<call.year, call.month, call.day>> = <<1970, 1, 1>>
    /\ result = <<Some(0), Some(<<1970, 1, 1>>)>>

(* C21 as stated: civil_from_days returns no value for every negative day  *)
(* count and a date for every other one.                                   *)
C21_CivilFromDaysRejectsNegative ==
    Applied("civil_from_days") => (result[1] = None <=> call.days < 0)

(* C21, amended: civil_from_days returns a date for every day count, the   *)
(* negative ones included; it is unix_to_ymd that returns no value for     *)
(* every negative timestamp and a date for every other one.                *)
C21_UnixToYmdRejectsNegative ==
    /\ Applied("civil_from_days") => result[1] # None
    /\ Applied("unix_to_ymd") => (result[1] = None <=> call.ts < 0)

(* unix_to_ymd refused the second before the epoch. *)
C21_Witness ==
    /\ Applied("unix_to_ymd")
    /\ call.ts = -1
    /\ result[1] = None

(* C22: days_from_civil returns no value exactly when the month is outside *)
(* 1..12 or the day outside 1..31; any other input, a year before 0 or a   *)
(* day beyond the length of the month included, gives a day count.         *)
C22_DaysFromCivilRejects ==
    Applied("days_from_civil") =>
        (result[1] = None <=> (call.month < 1 \/ call.month > 12
                                 \/ call.day < 1 \/ call.day > 31))

(* The 31st of February of the year before year 0 has a day count. *)
C22_Witness ==
    /\ Applied("days_from_civil")
    /\ call.year = -1 /\ call.month = 2 /\ call.day = 31
    /\ result[1] # None

(* The parts of a DateTime text as section 4.2 of the specification names  *)
(* them, on the text without its surrounding white space: the text is UTC  *)
(* when it ends in "Z"; its main part is what precedes the "Z", up to the  *)
(* first "." when there is a fraction.                                     *)
EndsInZ(t) == t # <<>> /\ t[Len(t)] = "Z"

MainPart(t) ==
    LET front == SubSeq(t, 1, Len(t) - 1)
        dots  == {i \in 1..Len(front) : front[i] = "."}
    IN  IF dots = {} THEN front
        ELSE SubSeq(front, 1, (CHOOSE i \in dots : \A j \in dots : i <= j) - 1)

IsInteger(cs) ==
    LET digits == IF cs # <<>> /\ cs[1] \in {"+", "-"} THEN Tail(cs) ELSE cs
    IN  digits # <<>> /\ \A i \in 1..Len(digits) : digits[i] \in DigitChars

NumberOf(cs) ==
    IF cs[1] = "-" THEN -DigitsValue(Tail(cs))
    ELSE IF cs[1] = "+" THEN DigitsValue(Tail(cs))
    ELSE DigitsValue(cs)

FieldsOf(main) ==
    [year   |-> SubSeq(main, 1, 4),   month  |-> SubSeq(main, 6, 7),
     day    |-> SubSeq(main, 9, 10),  hour   |-> SubSeq(main, 12, 13),
     minute |-> SubSeq(main, 15, 16), second |-> SubSeq(main, 18, 19)]

SeparatorsOk(main) ==
    /\ main[5] = "-" /\ main[8] = "-"
    /\ main[11] = "T"
    /\ main[14] = ":" /\ main[17] = ":"

WellFormed(t) ==
    /\ EndsInZ(t)
    /\ Len(MainPart(t)) = 19
    /\ \A k \in DOMAIN FieldsOf(MainPart(t)) : IsInteger(FieldsOf(MainPart(t))[k])
    /\ SeparatorsOk(MainPart(t))

(* C23: parse_github_datetime_to_unix returns no value for a text that     *)
(* does not end in "Z" (an offset such as "+02:00"), whose main part is    *)
(* not 19 characters long, that has a field that is not an integer, or     *)
(* that has a wrong separator at offset 4, 7, 10, 13 or 16; when it        *)
(* returns a value, the value is                                           *)
(* days_from_civil(date) * 86400 + hour * 3600 + minute * 60 + second.     *)
C23_ParserRejectsAndValue ==
    Applied("parse_github_datetime_to_unix") =>
        LET t == Trim(call.text)
            f == FieldsOf(MainPart(t))
        IN  /\ ~WellFormed(t) => result[1] = None
            /\ result[1] # None =>
                  LET days == days_from_civil(NumberOf(f.year), NumberOf(f.month),
                                              NumberOf(f.day))
                  IN  /\ days # None
                      /\ Unwrap(result[1]) =
                            Unwrap(days) * 86400 + NumberOf(f.hour) * 3600
                              + NumberOf(f.minute) * 60 + NumberOf(f.second)

(* The text with the offset "+02:00" was refused. *)
C23_Witness ==
    /\ Applied("parse_github_datetime_to_unix")
    /\ call.text = Chars(StampBad)
    /\ result[1] = None

FractionAdded ==
    /\ pc = "derive"
    /\ call.fn = "parse_github_datetime_to_unix"
    /\ Len(result) = 2

(* C24: for every text T without a fraction that the parser accepts and    *)
(* every fraction f, T with ".f" before its "Z" parses to the same number  *)
(* of seconds as T.                                                        *)
C24_FractionTruncated ==
    (FractionAdded /\ result[1] # None) => result[2] = result[1]

(* "2024-03-15T10:30:00.999Z" parsed to the second count of                *)
(* "2024-03-15T10:30:00Z".                                                 *)
C24_Witness ==
    /\ FractionAdded
    /\ call.text = Chars(StampAt)
    /\ call.fraction = <<"9", "9", "9">>
    /\ result = <<Some(1710498600), Some(1710498600)>>

LackingRequests(stream) ==
    {i \in 1..Len(requests) : requests[i].stream = stream /\ requests[i].lacking}

(* C25 as stated: in either stream a response in which a node lacks a      *)
(* required field does not make the run fail.                              *)
C25_LackingNodeNeverFails ==
    \A i \in LackingRequests("authored") \cup LackingRequests("search") :
        ~requests[i].answer.failed

WithoutLacking(nodes) == SelectSeq(nodes, LAMBDA n : ~Lacks(n))

(* C25, amended: in the search stream a node that lacks a required field   *)
(* is dropped: the page is processed as the same page without that node,   *)
(* with the same continuation, and the run does not fail there.  In the    *)
(* authored stream a response with such a node is not decoded and the run  *)
(* fails with the error of the authored query.                             *)
C25_LackingNodeDroppedInSearchOnly ==
    [][ /\ (pc = "search_await" /\ pc' # pc /\ requests[Len(requests)].lacking) =>
            LET r    == Unwrap(resp)
                scan == search_scan(WithoutLacking(Unwrap(r.nodes)), <<>>, None,
                                    cutoff_ts, include_team_requests, ViewerLogin)
            IN  /\ outcomes' = outcomes
                /\ requested_nodes' = requested_nodes \o scan.pushed
                /\ pc' = IF loop_breaks(TRUE, scan.min_updated, cutoff_ts,
                                         r.page_info.has_next_page,
                                         r.page_info.end_cursor)
                          THEN "merge" ELSE "search"
        /\ (pc = "authored_await" /\ pc' # pc /\ requests[Len(requests)].lacking) =>
            /\ pc' = "done"
            /\ outcomes' = <<[ok |-> FALSE, query |-> "authored", cause |-> "decode",
                              prs |-> {}]>>
      ]_vars

(* The only search page had a node lacking a field, another of its nodes   *)
(* was kept, and the run returned its records.                             *)
C25_Witness ==
    /\ pc = "done"
    /\ outcomes # <<>> /\ outcomes[1].ok
    /\ LackingRequests("search") # {}
    /\ Len(RequestsOf("search")) = 1
    /\ requested_nodes # <<>>
    /\ outcomes[1].prs # {}

OnlyParsed(prs) == SelectSeq(prs, LAMBDA n : Parses(n))

(* The search nodes without the pull requests whose updated-at does not    *)
(* parse.                                                                  *)
OnlyParsedSearch(nodes) ==
    SelectSeq(nodes, LAMBDA n : into_pull_request(n) = None
                                  \/ Parses(Unwrap(into_pull_request(n))))

(* C26: a node whose updated-at does not parse counts for nothing.  After  *)
(* a page of either stream the loop continues or stops exactly as it does  *)
(* after the same page without such nodes (and the authored stream keeps   *)
(* the same nodes), and the records returned are the records of the run    *)
(* without such nodes.                                                     *)
C26_UnparsedNodeIgnored ==
    [][ /\ (pc = "authored_await" /\ pc' # pc /\ ~Unwrap(resp).failed) =>
            LET r    == Unwrap(resp)
                prs  == IF r.nodes = None THEN <<>> ELSE Unwrap(r.nodes)
                scan == authored_scan(OnlyParsed(prs), <<>>, None, cutoff_ts)
            IN  /\ authored' = authored \o scan.keep
                /\ pc' = IF loop_breaks(r.nodes # None, scan.min_updated, cutoff_ts,
                                         r.page_info.has_next_page,
                                         r.page_info.end_cursor)
                          THEN "search" ELSE "authored"
        /\ (pc = "search_await" /\ pc' # pc /\ ~Unwrap(resp).failed) =>
            LET r    == Unwrap(resp)
                sns  == IF r.nodes = None THEN <<>> ELSE Unwrap(r.nodes)
                scan == search_scan(OnlyParsedSearch(sns), <<>>, None, cutoff_ts,
                                    include_team_requests, ViewerLogin)
            IN  /\ OnlyParsed(requested_nodes') = OnlyParsed(requested_nodes) \o scan.pushed
                /\ pc' = IF loop_breaks(r.nodes # None, scan.min_updated, cutoff_ts,
                                         r.page_info.has_next_page,
                                         r.page_info.end_cursor)
                          THEN "merge" ELSE "search"
        /\ (pc = "merge" /\ pc' # pc) =>
            outcomes' = <<values_of(
                merge_requested(merge_authored(EmptyMap, OnlyParsed(authored), ViewerLogin),
                                OnlyParsed(requested_nodes), ViewerLogin))>>
      ]_vars

(* A search page held a requested node whose updated-at does not parse;    *)
(* the run asked for the next page and returned.                           *)
C26_Witness ==
    /\ Returned
    /\ \E i \in 1..Len(requested_nodes) : ~Parses(requested_nodes[i])
    /\ Len(RequestsOf("search")) = 2

(* The login the first page of the authored stream reported. *)
FirstPageLogin == RequestsOf("authored")[1].login

(* C27: once the authored stream is over, the viewer login is the login    *)
(* its first page reported, whatever later pages report, and never the     *)
(* sentinel "unknown"; the search stream filters with that login and the   *)
(* records are derived with it.  Before that, viewer_login is unset only   *)
(* as long as no page of the authored stream was taken.                    *)
C27_ViewerLoginFromFirstPage ==
    [][ /\ viewer_login' # None =>
            /\ RequestsOf("authored") # <<>>
            /\ viewer_login' = FirstPageLogin
        /\ pc' \in {"search", "search_await", "merge"} =>
            /\ viewer_login' # None
            /\ ViewerLogin' = Unwrap(FirstPageLogin) /\ ViewerLogin' # "unknown"
        /\ (pc = "search_await" /\ pc' # pc /\ ~Unwrap(resp).failed) =>
            LET r   == Unwrap(resp)
                sns == IF r.nodes = None THEN <<>> ELSE Unwrap(r.nodes)
            IN  requested_nodes' = requested_nodes \o
                    search_scan(sns, <<>>, None, cutoff_ts, include_team_requests,
                                Unwrap(FirstPageLogin)).pushed
        /\ (pc = "merge" /\ pc' # pc) =>
            outcomes' = <<values_of(
                merge_requested(merge_authored(EmptyMap, authored, Unwrap(FirstPageLogin)),
                                requested_nodes, Unwrap(FirstPageLogin)))>>
      ]_vars

(* Two pages of the authored stream reported different logins and the run *)
(* returned with the login of the first.                                   *)
C27_Witness ==
    /\ Returned
    /\ Len(RequestsOf("authored")) = 2
    /\ RequestsOf("authored")[1].login = Some("me")
    /\ RequestsOf("authored")[2].login = Some("octo")
    /\ viewer_login = Some("me")

(* The UTC calendar date of the day that holds a cutoff. *)
DateOfCutoff(c) ==
    CASE c = -2592000   -> "1969-12-02"
      [] c = -1         -> "1969-12-31"
      [] c = 0          -> "1970-01-01"
      [] c = 86399      -> "1970-01-01"
      [] c = 86400      -> "1970-01-02"
      [] c = 951782400  -> "2000-02-29"
      [] c = 1710498600 -> "2024-03-15"
      [] c = 1710547199 -> "2024-03-15"
      [] c = 1710547200 -> "2024-03-16"

(* C28 as stated: the search string of a run is the fixed text followed by *)
(* the zero-padded calendar date of cutoff_ts.                             *)
C28_QueryCarriesCutoffDate ==
    Applied("search_query") =>
        result[1] = "is:pr is:open review-requested:@me sort:updated-desc updated:>="
                    \o DateOfCutoff(call.cutoff)

(* C28, amended: the search string of a run is the fixed text followed by  *)
(* the zero-padded calendar date of cutoff_ts when cutoff_ts is not        *)
(* negative, and by 1970-01-01 when it is.                                 *)
C28_QueryCarriesDateOrEpoch ==
    Applied("search_query") =>
        result[1] = "is:pr is:open review-requested:@me sort:updated-desc updated:>="
                    \o (IF call.cutoff >= 0 THEN DateOfCutoff(call.cutoff)
                        ELSE "1970-01-01")

(* The search string of a run whose cutoff is thirty days before the       *)
(* epoch.                                                                  *)
C28_Witness ==
    /\ Applied("search_query")
    /\ call.cutoff = -2592000
    /\ result[1] =
          "is:pr is:open review-requested:@me sort:updated-desc updated:>=1970-01-01"

(* C29: the first request of each stream carries no cursor, every later    *)
(* request of a stream carries the endCursor of the page that answered the *)
(* request before it in the same stream, and every request asks for 50     *)
(* nodes.                                                                  *)
C29_CursorThreading ==
    \A stream \in Streams :
        LET rs == RequestsOf(stream)
        IN  \A i \in 1..Len(rs) :
                /\ rs[i].page_size = 50
                /\ i = 1 => rs[i].cursor = None
                /\ i > 1 => /\ ~rs[i - 1].answer.failed
                            /\ rs[i].cursor = rs[i - 1].answer.page_info.end_cursor

(* Both streams took two pages; the last authored page carried a cursor,   *)
(* and the search stream still started without one.                        *)
C29_Witness ==
    /\ Len(RequestsOf("authored")) = 2
    /\ RequestsOf("authored")[2].cursor = Some("c1")
    /\ RequestsOf("authored")[2].answer.page_info.end_cursor = Some("c1")
    /\ Len(RequestsOf("search")) = 2
    /\ RequestsOf("search")[1].cursor = None
    /\ RequestsOf("search")[2].cursor = Some("c1")

(* The step of poll_sync that takes the outcome Ok(prs) of the worker. *)
OutcomeTaken ==
    /\ app # None /\ app' # None
    /\ Unwrap(app).sync_rx # None
    /\ Unwrap(app').sync_rx = None
    /\ pc = "done"
    /\ outcomes[1].ok

(* The node the record of a key was made from: the last one of that key on *)
(* the lists the merge walks, authored first.                              *)
ProducingNode(key) ==
    LET nodes == authored \o requested_nodes
        keyed == {i \in 1..Len(nodes) :
                     pr_key_of(nodes[i].repository.owner.login,
                               nodes[i].repository.name, nodes[i].number) = key}
    IN  nodes[CHOOSE i \in keyed : \A j \in keyed : j <= i]

TodosOf(items, pr) ==
    {items[i] : i \in {j \in 1..Len(items) :
                           items[j].external_key = Some(external_key_of(pr))}}

(* C30: when poll_sync processes the outcome of a sync, a returned pull    *)
(* request gets a todo, added or refreshed with its title and URL, exactly *)
(* when its node names the viewer among the requested reviewers of kind    *)
(* User; the todos of every other returned pull request, an authored-only  *)
(* one included, are left as they were.                                    *)
C30_TodoIffExplicitlyRequested ==
    [][OutcomeTaken =>
          \A pr \in outcomes[1].prs :
              IF NamesUser(ProducingNode(pr.pr_key), ViewerLogin)
              THEN \E t \in TodosOf(Unwrap(app').repo, pr) :
                      /\ t.title = todo_title(pr)
                      /\ t.external_url = Some(pr.url)
                      /\ TodosOf(Unwrap(app).repo, pr) = {} => t.priority = "High"
              ELSE TodosOf(Unwrap(app').repo, pr) = TodosOf(Unwrap(app).repo, pr)]_vars

(* A sync into an empty repository returned a pull request the viewer      *)
(* wrote and one that asks the viewer for a review: only the second has a  *)
(* todo.                                                                   *)
C30_Witness ==
    /\ app # None
    /\ pc = "done"
    /\ Unwrap(app).status = Some("Synced GitHub: 1 tasks added")
    /\ \E own, asked \in outcomes[1].prs :
          /\ own.is_viewer_author /\ own.review_state # "Requested"
          /\ asked.review_state = "Requested"
          /\ NamesUser(ProducingNode(asked.pr_key), "me")
          /\ TodosOf(Unwrap(app).repo, own) = {}
          /\ Len(Unwrap(app).repo) = 1
          /\ Unwrap(app).repo[1].title = "koto/app#2 by unknown: from authored"
          /\ Unwrap(app).todos = Unwrap(app).repo

(* The repository and the status line of the App before and after a step. *)
RepoNow == Unwrap(app).repo

RepoNext == Unwrap(app').repo

StatusNext(msg) == app # None /\ app' # None /\ Unwrap(app').status = Some(msg)

DoneOf(items) == {items[i].id : i \in {j \in 1..Len(items) : items[j].done}}

IdsOf(items) == {items[i].id : i \in 1..Len(items)}

TodoOf(items, id) == items[CHOOSE i \in 1..Len(items) : items[i].id = id]

(* C31: toggle(id) flips the done flag of the todo with that id and of no  *)
(* other, changing nothing else; clear_done removes the todos marked done  *)
(* and no other, returns their number and leaves the others as they were.  *)
C31_ToggleAndClearDone ==
    [][/\ (StatusNext("Toggled completion") /\ RepoNext # RepoNow) =>
             LET id == Unwrap(selected_id(Unwrap(app)))
             IN  /\ id \in IdsOf(RepoNow)
                 /\ Len(RepoNext) = Len(RepoNow)
                 /\ \A i \in 1..Len(RepoNow) :
                       RepoNext[i] =
                           IF RepoNow[i].id = id
                           THEN [RepoNow[i] EXCEPT !.done = ~RepoNow[i].done]
                           ELSE RepoNow[i]
       /\ \A n \in 0..4 :
             (/\ StatusNext(IF n = 0 THEN "No completed items"
                            ELSE "Cleared " \o ToString(n) \o " completed")
              /\ app' # app
              /\ Unwrap(app).status # Unwrap(app').status \/ RepoNext # RepoNow) =>
                 /\ n = Cardinality(DoneOf(RepoNow))
                 /\ IdsOf(RepoNext) = IdsOf(RepoNow) \ DoneOf(RepoNow)
                 /\ Len(RepoNext) = Len(RepoNow) - n
                 /\ \A id \in IdsOf(RepoNext) :
                       TodoOf(RepoNext, id) = TodoOf(RepoNow, id)]_vars

(* A todo was typed in, toggled and cleared: clear_done returned 1 and the *)
(* store is empty.                                                         *)
C31_Witness ==
    /\ app # None
    /\ Unwrap(app).adds = 1
    /\ Unwrap(app).status = Some("Cleared 1 completed")
    /\ Unwrap(app).repo = <<>>
    /\ Unwrap(app).todos = <<>>

(* C32: whatever the server answers, each stream issues only finitely many *)
(* requests and the run does not loop forever: a call that has started     *)
(* returns.                                                                *)
C32_RunEndsWhateverServer ==
    (pc \in {"authored", "search"}) ~> (pc = "done")

(* All nodes of a stream, over all of its pages, in the order served. *)
RECURSIVE StreamNodes(_)
StreamNodes(pages) ==
    IF pages = <<>> THEN <<>>
    ELSE (IF Head(pages).nodes = None THEN <<>> ELSE Unwrap(Head(pages).nodes))
         \o StreamNodes(Tail(pages))

(* The ordering assumption: every timestamp parses, the nodes are in      *)
(* descending order of updated-at over all pages, and every page with      *)
(* hasNextPage = true carries a cursor.                                    *)
OrderingAssumption(pages) ==
    LET all == StreamNodes(pages)
        at(i) == parse_github_datetime_to_unix(all[i].updated_at)
    IN  /\ \A i \in 1..Len(all) : at(i) # None
        /\ \A i \in 1..Len(all) : \A j \in i..Len(all) : Unwrap(at(i)) >= Unwrap(at(j))
        /\ \A i \in 1..Len(pages) :
              pages[i].page_info.has_next_page => pages[i].page_info.end_cursor # None

(* C33: when the ordering assumption holds of the authored stream, the     *)
(* nodes kept from it are exactly the nodes of the whole stream whose      *)
(* updated_at is not before the cutoff, in the order served.               *)
C33_EarlyStopLosesNothing ==
    (Applied("authored_stream") /\ OrderingAssumption(call.pages))
        => result[1] = SelectSeq(StreamNodes(call.pages),
                                 LAMBDA n : Unwrap(parse_github_datetime_to_unix(n.updated_at))
                                                >= call.cutoff)

(* The loop left early on the first of two pages, whose nodes straddle the *)
(* cutoff, while the second page still holds nodes.                        *)
C33_Witness ==
    /\ Applied("authored_stream")
    /\ OrderingAssumption(call.pages)
    /\ Len(call.pages) = 2
    /\ call.pages[1].nodes # None
    /\ Len(Unwrap(call.pages[1].nodes)) = 2
    /\ Unwrap(call.pages[1].nodes)[2].updated_at = StampOld
    /\ call.pages[2].nodes # None
    /\ Unwrap(call.pages[2].nodes) # <<>>
    /\ Len(result[1]) = 1

(* The worker of the last sync started has neither returned nor gone. *)
WorkerInFlight == pc \notin {"idle", "done", "gone"}

(* C34: at most one worker is in flight at a time: a worker runs only      *)
(* while is_syncing is true, no step starts a sync while is_syncing is     *)
(* true, a worker is spawned only when none is in flight, and is_syncing   *)
(* is true exactly when sync_rx is held.                                   *)
C34_OneWorkerInFlight ==
    [][LET a    == Unwrap(app)
           next == Unwrap(app')
       IN  /\ a.is_syncing <=> a.sync_rx # None
           /\ next.is_syncing <=> next.sync_rx # None
           /\ WorkerInFlight => a.is_syncing
           /\ WorkerInFlight' => next.is_syncing
           /\ a.is_syncing => next.syncs = a.syncs
           /\ next.syncs # a.syncs =>
                 /\ ~WorkerInFlight
                 /\ WorkerInFlight'
                 /\ next.syncs = a.syncs + 1]_vars

(* The second sync of an App is running and the key 'g' was pressed again. *)
C34_Witness ==
    /\ app # None
    /\ Unwrap(app).syncs = 2
    /\ Unwrap(app).is_syncing
    /\ Unwrap(app).status = Some("Sync already in progress")
    /\ WorkerInFlight

(* The statuses poll_sync sets when it takes what the worker left. *)
PollStatuses ==
    { Some("Synced GitHub: " \o ToString(n) \o " tasks added") : n \in 0..2 }
        \cup { Some("GitHub sync failed: " \o q \o ": " \o c) :
                  q \in {"authored", "review-requested"},
                  c \in {"transport", "decode"} }
        \cup { Some("GitHub sync channel closed") }

(* A step that leaves one of these statuses and changes more than the     *)
(* selection is a step of poll_sync taking what the worker left: it is     *)
(* taken only while the channel is held and the worker has sent or is      *)
(* gone, and it clears is_syncing and drops the channel, so that nothing   *)
(* is left to take a second time.                                          *)
C35_TakenOnce ==
    [][(/\ Unwrap(app').status \in PollStatuses
        /\ [Unwrap(app') EXCEPT !.selected = 0] # [Unwrap(app) EXCEPT !.selected = 0]) =>
          /\ Unwrap(app).sync_rx # None
          /\ pc \in {"done", "gone"}
          /\ Unwrap(app').sync_rx = None
          /\ ~Unwrap(app').is_syncing]_vars

(* Once the worker has sent or is gone, poll_sync clears is_syncing. *)
C35_PollClears ==
    (pc \in {"done", "gone"} /\ Unwrap(app).is_syncing) ~> ~Unwrap(app).is_syncing

(* C35: the outcome of a sync is applied at most once, a poll_sync after   *)
(* the worker has sent or is gone clears is_syncing and drops the channel, *)
(* and is_syncing never stays true forever while poll_sync keeps being     *)
(* called.                                                                 *)
C35_SyncingEnds ==
    /\ C35_TakenOnce
    /\ C35_PollClears
    /\ Unwrap(app).is_syncing ~> ~Unwrap(app).is_syncing

(* The todos of `items` with the external key `key`. *)
WithKey(items, key) == SelectSeq(items, LAMBDA t : t.external_key = key)

(* The step of poll_sync that applies a list of records to the repository. *)
SyncApplied ==
    /\ Unwrap(app).sync_rx # None
    /\ Unwrap(app').sync_rx = None
    /\ pc = "done"
    /\ outcomes[1].ok

(* C36: the repository never holds two todos with one external key; a sync *)
(* leaves every todo it finds with its id, done flag, priority, due date   *)
(* and key (a todo without a key untouched), gives the todo of each record *)
(* it adds the record's title and URL, and creates a todo only for a key   *)
(* the repository did not hold.                                            *)
C36_SyncsAreIdempotent ==
    [][LET a     == Unwrap(app)
           next  == Unwrap(app')
           added == {pr \in outcomes[1].prs : should_add_todo(pr)}
       IN  /\ \A t \in Range(a.repo) :
                 t.external_key # None => Len(WithKey(a.repo, t.external_key)) = 1
           /\ \A t \in Range(next.repo) :
                 t.external_key # None => Len(WithKey(next.repo, t.external_key)) = 1
           /\ SyncApplied =>
                 /\ \A t \in Range(a.repo) :
                       \E u \in Range(next.repo) :
                          /\ u.id = t.id
                          /\ u.done = t.done
                          /\ u.priority = t.priority
                          /\ u.due = t.due
                          /\ u.external_key = t.external_key
                          /\ t.external_key = None => u = t
                 /\ \A pr \in added :
                       \E u \in Range(next.repo) :
                          /\ u.external_key = Some(external_key_of(pr))
                          /\ u.title = todo_title(pr)
                          /\ u.external_url = Some(pr.url)
                 /\ Len(next.repo) = Len(a.repo) + Cardinality(
                       {pr \in added : WithKey(a.repo, Some(external_key_of(pr))) = <<>>})]_vars

(* The second sync of an App has refreshed the todo of koto/app#1, which   *)
(* an earlier sync created and the user has completed since: it is still   *)
(* the todo with id 1, done, and with the priority and due date it had.    *)
C36_Witness ==
    /\ app # None
    /\ Unwrap(app).syncs = 2
    /\ Unwrap(app).status = Some("Synced GitHub: 1 tasks added")
    /\ \E t \in Range(Unwrap(app).repo) :
          /\ t.external_key = Some("github_pr:koto/app#1")
          /\ t.id = 1
          /\ t.done
          /\ t.priority = "High"
          /\ t.due = Some(0)
          /\ t.title # "koto/app#1 by octo: earlier title"

(* C37: whenever the todo list is not empty, the selection is an index of  *)
(* the list: selected < todos.len().                                       *)
C37_SelectionInBounds ==
    app # None =>
        (Unwrap(app).todos # <<>> => Unwrap(app).selected < Len(Unwrap(app).todos))

(* clear_done has removed a completed todo from a list of three and the    *)
(* selection is on the last of the two todos left.                         *)
C37_Witness ==
    /\ app # None
    /\ Unwrap(app).status = Some("Cleared 1 completed")
    /\ Len(Unwrap(app).todos) = 2
    /\ Unwrap(app).selected = 1

====
